---------------------------- MODULE Spec2Model ----------------------------
(***************************************************************************)
(* A model of the Spire.Doc MCP server (src/src/spire_doc_mcp): the tool   *)
(* functions of the api layer, the handlers of the core layer, and the     *)
(* part of the file system and of the document engine they act on.         *)
(*                                                                         *)
(* Strings are sequences of tokens.  A token is the separator "/", the dot *)
(* ".", or a run of characters that holds neither (a letter, "docx").      *)
(* An optional value is a sequence: <<>> is None, <<v>> is the value v.    *)
(*                                                                         *)
(* The document engine (spire.doc) is outside the repository.  It is       *)
(* modelled as a faithful store: Document() is a document with no section, *)
(* SaveToFile writes the in-memory document to the path, LoadFromFile      *)
(* reads back what was written, a collection's Insert of an item that is   *)
(* already in the body moves it, RemoveAt removes the item at the index.   *)
(***************************************************************************)
EXTENDS Integers, Sequences, FiniteSets, TLC

VARIABLES
    disk,       \* the files: normalised path -> content
    dirs,       \* the directories that exist (normalised paths)
    last,       \* the last tool call: its arguments, its outcome, the disk before it
    convCalls   \* the convert_document tool calls made so far, oldest first

vars == <<disk, dirs, last, convCalls>>

None == <<>>
Some(v) == <<v>>
IsNone(o) == o = <<>>
Val(o) == o[1]

---------------------------------------------------------------------------
(* Bounds of the model.                                                    *)

\* the longest document name get_doc_path is given in SpecPath
MaxNameLen == 5
\* the longest base directory get_doc_path is given in SpecPath
MaxBaseLen == 3
\* the most paragraphs and tables a section body grows to
MaxBody == 3
\* the most convert_document calls recorded
MaxConvCalls == 3
\* the most sections a merged document grows to
MaxSections == 2

---------------------------------------------------------------------------
(* posixpath, on token sequences.                                          *)

SEP == "/"
DOT == "."

RECURSIVE AllSep(_)
AllSep(s) == s = <<>> \/ (Head(s) = SEP /\ AllSep(Tail(s)))

\* str.rstrip('/')
RECURSIVE RStripSep(_)
RStripSep(s) ==
    IF s # <<>> /\ s[Len(s)] = SEP THEN RStripSep(SubSeq(s, 1, Len(s) - 1)) ELSE s

\* str.rfind('/') + 1: the length of the prefix that ends with the last separator
RECURSIVE RFindSep(_)
RFindSep(s) ==
    IF s = <<>> THEN 0
    ELSE IF s[Len(s)] = SEP THEN Len(s)
    ELSE RFindSep(SubSeq(s, 1, Len(s) - 1))

\* os.path.isabs
IsAbs(p) == p # <<>> /\ p[1] = SEP

\* os.path.join(a, b)
PathJoin(a, b) ==
    IF IsAbs(b) THEN b
    ELSE IF a = <<>> \/ a[Len(a)] = SEP THEN a \o b
    ELSE a \o <<SEP>> \o b

\* os.path.dirname(p)
DirName(p) ==
    LET head == SubSeq(p, 1, RFindSep(p))
    IN  IF head # <<>> /\ ~AllSep(head) THEN RStripSep(head) ELSE head

\* os.path.basename(p)
BaseName(p) == SubSeq(p, RFindSep(p) + 1, Len(p))

\* p.split('/'): the components of p, empty ones included
RECURSIVE SplitSep(_, _)
SplitSep(p, cur) ==
    IF p = <<>> THEN <<cur>>
    ELSE IF Head(p) = SEP THEN <<cur>> \o SplitSep(Tail(p), <<>>)
    ELSE SplitSep(Tail(p), Append(cur, Head(p)))

DOTDOT == <<DOT, DOT>>

\* the loop of os.path.normpath over the components
RECURSIVE NormComps(_, _, _)
NormComps(comps, new, abs) ==
    IF comps = <<>> THEN new
    ELSE LET c == Head(comps)
             rest == Tail(comps)
         IN  IF c = <<>> \/ c = <<DOT>> THEN NormComps(rest, new, abs)
             ELSE IF c # DOTDOT \/ (~abs /\ new = <<>>)
                       \/ (new # <<>> /\ new[Len(new)] = DOTDOT)
                  THEN NormComps(rest, Append(new, c), abs)
             ELSE IF new # <<>>
                  THEN NormComps(rest, SubSeq(new, 1, Len(new) - 1), abs)
             ELSE NormComps(rest, new, abs)

\* os.path.normpath(p), as the pair (absolute?, components); relative paths
\* are relative to the working directory of the server (os.path.abspath)
NormPath(p) == [abs |-> IsAbs(p), comps |-> NormComps(SplitSep(p, <<>>), <<>>, IsAbs(p))]

\* the directories os.makedirs(p) leaves in existence: p and its ancestors
Ancestors(n) == {[abs |-> n.abs, comps |-> SubSeq(n.comps, 1, k)] : k \in 0..Len(n.comps)}

\* the working directory, the root and their parents exist without being made
AlwaysThere(n) == \A i \in 1..Len(n.comps) : n.comps[i] = DOTDOT

\* os.path.exists(p)
Exists(p, ds, dk) ==
    p # <<>> /\ (AlwaysThere(NormPath(p)) \/ NormPath(p) \in ds \/ NormPath(p) \in DOMAIN dk)

\* os.path.isfile(p)
IsFile(p, dk) == p # <<>> /\ NormPath(p) \in DOMAIN dk

---------------------------------------------------------------------------
(* Exceptions (utils/exceptions.py) and the envelope of a tool call.       *)

\* the classes a handler raises: DocumentError, ParagraphError, TableError and
\* ConversionError are siblings under SpireDocError; the others are built in
Raise(cls, msg) == [raised |-> TRUE, cls |-> cls, msg |-> msg, value |-> <<>>]
Return(v) == [raised |-> FALSE, cls |-> "", msg |-> "", value |-> <<v>>]

\* except <caught> as e: the only subclass relation among the raised classes
\* is that every one of them is an Exception
Catches(caught, cls) == caught = cls \/ caught = "Exception"

---------------------------------------------------------------------------
(* api/base.py                                                             *)

\* get_doc_path(filename, doc_files_path): the path, or the exception raised;
\* mkdir is the directory os.makedirs was called on (None when it was not)
get_doc_path(filename, doc_dir, ds, dk) ==
    LET missing == ~Exists(doc_dir, ds, dk)
        doc_path == PathJoin(doc_dir, filename)
    IN  IF missing /\ doc_dir = <<>>
        THEN [res |-> Raise("FileNotFoundError", "makedirs"), mkdir |-> None]
        ELSE IF DirName(doc_path) # doc_dir
        THEN [res |-> Raise("DocumentError", "Invalid document path"),
              mkdir |-> IF missing THEN Some(doc_dir) ELSE None]
        ELSE [res |-> Return(doc_path),
              mkdir |-> IF missing THEN Some(doc_dir) ELSE None]

\* the directories after a get_doc_path call
DirsAfter(r, ds) == IF IsNone(r.mkdir) THEN ds ELSE ds \cup Ancestors(NormPath(Val(r.mkdir)))

---------------------------------------------------------------------------
(* The document engine: documents, sections, paragraphs, tables.           *)
(*                                                                         *)
(* A file is [valid, sections, r, w]: valid says the engine can parse it,  *)
(* r and w are its read and write permission.  A document is its sequence  *)
(* of sections; a section is its body, the sequence of its paragraphs and  *)
(* tables in document order.                                               *)

\* the formatting of a paragraph the engine creates
DefaultFormat ==
    [alignment |-> "Left", first_line_indent |-> 0, left_indent |-> 0,
     right_indent |-> 0, line_spacing |-> 12, line_spacing_rule |-> "Multiple",
     before_spacing |-> 0, after_spacing |-> 0]

NewParagraph == [kind |-> "para", text |-> "", fmt |-> DefaultFormat, cells |-> <<>>]
Para(t) == [NewParagraph EXCEPT !.text = t]

\* Table.ResetCells(rows, columns): rows x columns cells, each without a paragraph
NewTable(rows, columns) ==
    [kind |-> "table", text |-> "", fmt |-> DefaultFormat,
     cells |-> [r \in 1..rows |-> [c \in 1..columns |-> <<>>]]]

\* Document(): no section
NewDocument == <<>>

\* What a file holds, when it is loaded again, after a document with no
\* section was saved to it.  The engine decides: the document as it was, or
\* the least document of the file format (one section, empty or holding one
\* empty paragraph).
EmptyReloads == {NewDocument, <<<<>>>>, <<<<NewParagraph>>>>}

Saved(sections, reload) == IF sections = NewDocument THEN reload ELSE sections

\* a file: whether it is a document the engine loads, the sections, the
\* protection and the watermark of the document, and the permissions
FileOf(sections) ==
    [valid |-> TRUE, sections |-> sections, protection |-> "none", watermark |-> None,
     r |-> TRUE, w |-> TRUE]

\* a file the engine cannot load
InvalidFile == [FileOf(<<>>) EXCEPT !.valid = FALSE]

InsertAt(s, pos, x) == SubSeq(s, 1, pos - 1) \o <<x>> \o SubSeq(s, pos, Len(s))
RemoveAtPos(s, pos) == SubSeq(s, 1, pos - 1) \o SubSeq(s, pos + 1, Len(s))

\* the body positions of the items of one kind, in order: the view
\* section.Paragraphs (kind "para") or section.Tables (kind "table")
RECURSIVE KindPositions(_, _, _)
KindPositions(body, kind, i) ==
    IF i > Len(body) THEN <<>>
    ELSE (IF body[i].kind = kind THEN <<i>> ELSE <<>>) \o KindPositions(body, kind, i + 1)

ParaPos(body) == KindPositions(body, "para", 1)
TablePos(body) == KindPositions(body, "table", 1)

\* section.Paragraphs.Count, section.Tables.Count
ParaCount(body) == Len(ParaPos(body))
TableCount(body) == Len(TablePos(body))

\* section.Paragraphs[i] (i from 0)
ParaAt(body, i) == body[ParaPos(body)[i + 1]]

\* the texts of the paragraphs of a body, in order
ParaTexts(body) == [k \in 1..ParaCount(body) |-> body[ParaPos(body)[k]].text]

\* section.AddParagraph(): a new paragraph at the end of the body
AddParagraph(body) == Append(body, NewParagraph)

\* section.Paragraphs.Insert(i, paragraph) for the paragraph at body position
\* q: it is moved to stand before the paragraph that was i-th without it, or
\* to the end when there is none.  The result is the body and the position.
ParagraphsInsertAppend(body, i, q) ==
    [body |-> body, pos |-> q]

ParagraphsInsert(body, i, q) ==
    LET item == body[q]
        rest == RemoveAtPos(body, q)
        pp == ParaPos(rest)
        target == IF i < Len(pp) THEN pp[i + 1] ELSE Len(rest) + 1
    IN  [body |-> InsertAt(rest, target, item), pos |-> target]

ParagraphsRemoveAtLast(body, i) == RemoveAtPos(body, ParaPos(body)[ParaCount(body)])

\* section.Paragraphs.RemoveAt(i)
ParagraphsRemoveAt(body, i) == RemoveAtPos(body, ParaPos(body)[i + 1])

SetText(body, pos, t) == [body EXCEPT ![pos].text = t]

\* section.AddTable(), section.AddTable(True): a new table at the end of the
\* body; table.ResetCells(rows, columns) gives it its cells
AddTable(body, rows, columns) == Append(body, NewTable(rows, columns))

\* section.Tables.Insert(i, table) for the table at body position q: as
\* Paragraphs.Insert, in the view section.Tables
TablesInsert(body, i, q) ==
    LET item == body[q]
        rest == RemoveAtPos(body, q)
        tp == TablePos(rest)
        target == IF i < Len(tp) THEN tp[i + 1] ELSE Len(rest) + 1
    IN  [body |-> InsertAt(rest, target, item), pos |-> target]

\* document.SaveToFile(path): the file at the path holds the document; an
\* existing file keeps its permissions
SaveNothing(dk, path, sections) == dk

SaveToFile(dk, path, sections) ==
    LET n == NormPath(path)
        f == IF n \in DOMAIN dk THEN [dk[n] EXCEPT !.valid = TRUE, !.sections = sections]
             ELSE FileOf(sections)
    IN  [m \in DOMAIN dk \cup {n} |-> IF m = n THEN f ELSE dk[m]]

---------------------------------------------------------------------------
(* core/base.py                                                            *)

DocExts == {"doc", "docx", "docm", "dot", "dotx", "dotm"}

\* str.lower() of a token
Lower(t) ==
    CASE t = "DOCX" -> "docx"
      [] t = "CENTER" -> "center"
      [] t = "PDF" -> "pdf"
      [] OTHER -> t

\* path.lower().endswith(('.doc', '.docx', '.docm', '.dot', '.dotx', '.dotm'))
HasDocExt(p) ==
    Len(p) >= 2 /\ p[Len(p) - 1] = DOT /\ Lower(p[Len(p)]) \in DocExts

\* BaseHandler._load_document: the loaded document, or the DocumentError
LoadDocument(path, dk) ==
    LET f == dk[NormPath(path)]
    IN  IF ~f.r THEN Raise("DocumentError", "No read permission for document")
        ELSE IF ~f.w THEN Raise("DocumentError", "No write permission for document")
        ELSE IF ~f.valid THEN Raise("DocumentError", "Failed to load document")
        ELSE IF Len(f.sections) = 0 THEN Raise("DocumentError", "Document has no sections")
        ELSE Return(f.sections)

\* BaseHandler.__init__(doc_path): the handler's document, or the DocumentError
BaseHandlerInit(path, dk) ==
    IF path = <<>> THEN Raise("DocumentError", "Document path cannot be empty")
    ELSE IF ~IsFile(path, dk) THEN Raise("DocumentError", "Document file not found")
    ELSE IF ~HasDocExt(path) THEN Raise("DocumentError", "Unsupported document format")
    ELSE LoadDocument(path, dk)

\* BaseHandler._validate_section_index: the message of the DocumentError, or None
ValidateSectionIndex(doc, s) ==
    IF s < 0 THEN Some("Section index cannot be negative")
    ELSE IF s >= Len(doc) THEN Some("Section index out of range")
    ELSE None

ValidateParagraphFirst(doc, p, s) ==
    IF p < 0 THEN Some("Paragraph index cannot be negative")
    ELSE IF ~IsNone(ValidateSectionIndex(doc, s)) THEN ValidateSectionIndex(doc, s)
    ELSE IF p >= ParaCount(doc[s + 1]) THEN Some("Paragraph index out of range")
    ELSE None

\* BaseHandler._validate_paragraph_index
ValidateParagraphIndex(doc, p, s) ==
    IF ~IsNone(ValidateSectionIndex(doc, s)) THEN ValidateSectionIndex(doc, s)
    ELSE IF p < 0 THEN Some("Paragraph index cannot be negative")
    ELSE IF p >= ParaCount(doc[s + 1]) THEN Some("Paragraph index out of range")
    ELSE None

---------------------------------------------------------------------------
(* core/paragraph.py: the methods of ParagraphHandler.  Each takes the     *)
(* handler's loaded document (doc) and path, and gives the value returned  *)
(* or the exception raised, and the disk it leaves.                        *)

\* every method wraps what it raises: except Exception as e: raise ParagraphError
ParagraphError(msg) == Raise("ParagraphError", msg)

ParagraphHandler_get_paragraph_text(doc, path, p, s, dk) ==
    LET v == ValidateParagraphIndex(doc, p, s)
    IN  IF ~IsNone(v) THEN [res |-> ParagraphError(Val(v)), disk |-> dk]
        ELSE [res |-> Return([section_index |-> s, paragraph_index |-> p,
                              text |-> ParaAt(doc[s + 1], p).text]),
              disk |-> dk]

ParagraphHandler_get_paragraphinfo(doc, path, p, s, dk) ==
    LET v == ValidateParagraphIndex(doc, p, s)
    IN  IF ~IsNone(v) THEN [res |-> ParagraphError(Val(v)), disk |-> dk]
        ELSE [res |-> Return([section_index |-> s, paragraph_index |-> p,
                              text |-> ParaAt(doc[s + 1], p).text,
                              alignment |-> "HorizontalAlignment." \o ParaAt(doc[s + 1], p).fmt.alignment]),
              disk |-> dk]

ParagraphHandler_delete_paragraph(doc, path, p, s, dk) ==
    LET v == ValidateParagraphIndex(doc, p, s)
    IN  IF ~IsNone(v) THEN [res |-> ParagraphError(Val(v)), disk |-> dk]
        ELSE LET info == ParagraphHandler_get_paragraphinfo(doc, path, p, s, dk).res
                 doc2 == [doc EXCEPT ![s + 1] = ParagraphsRemoveAt(doc[s + 1], p)]
             IN  [res |-> Return([section_index |-> s, paragraph_index |-> p,
                                  deleted_text |-> Val(info.value).text]),
                  disk |-> SaveToFile(dk, path, doc2)]

\* pidx is the optional paragraph_index
ParagraphHandler_add_paragraph(doc, path, text, s, pidx, dk) ==
    LET v == ValidateSectionIndex(doc, s)
    IN  IF ~IsNone(v) THEN [res |-> ParagraphError(Val(v)), disk |-> dk]
        ELSE IF ~IsNone(pidx) /\ (Val(pidx) < 0 \/ Val(pidx) > ParaCount(doc[s + 1]))
        THEN [res |-> ParagraphError("Invalid paragraph index"), disk |-> dk]
        ELSE LET body1 == AddParagraph(doc[s + 1])
                 ins == IF ~IsNone(pidx)
                        THEN ParagraphsInsert(body1, Val(pidx), Len(body1))
                        ELSE [body |-> body1, pos |-> Len(body1)]
                 actual_index == IF ~IsNone(pidx) THEN Val(pidx) ELSE ParaCount(body1) - 1
                 body2 == SetText(ins.body, ins.pos, text)
                 doc2 == [doc EXCEPT ![s + 1] = body2]
             IN  [res |-> Return([section_index |-> s, paragraph_index |-> actual_index,
                                  text |-> text,
                                  total_paragraphs_in_section |-> ParaCount(body2)]),
                  disk |-> SaveToFile(dk, path, doc2)]

ParagraphHandler_update_paragraph_text(doc, path, p, new_text, s, dk) ==
    LET v == ValidateParagraphIndex(doc, p, s)
    IN  IF ~IsNone(v) THEN [res |-> ParagraphError(Val(v)), disk |-> dk]
        ELSE LET pos == ParaPos(doc[s + 1])[p + 1]
                 doc2 == [doc EXCEPT ![s + 1] = SetText(doc[s + 1], pos, new_text)]
             IN  [res |-> Return([section_index |-> s, paragraph_index |-> p,
                                  original_text |-> doc[s + 1][pos].text,
                                  new_text |-> new_text]),
                  disk |-> SaveToFile(dk, path, doc2)]

---------------------------------------------------------------------------
(* The api layer: what a tool function gives its caller.                   *)

\* try: ... return {"success": True, ...}  except <caught> as e: return the
\* error envelope; an exception of another class leaves the function
Envelope(caught, code, suggestion, res) ==
    IF ~res.raised
    THEN [outcome |-> "success", success |-> TRUE, data |-> res.value,
          error |-> <<>>, exc |-> ""]
    ELSE IF Catches(caught, res.cls)
    THEN [outcome |-> "failure", success |-> FALSE, data |-> <<>>,
          error |-> <<[code |-> code, type |-> caught, details |-> res.msg,
                       suggestion |-> suggestion]>>,
          exc |-> ""]
    ELSE [outcome |-> "exception", success |-> FALSE, data |-> <<>>,
          error |-> <<>>, exc |-> res.cls]

\* doc_path = get_doc_path(...); handler = <a BaseHandler>(doc_path): the
\* handler's document and path, or the exception raised
OpenHandler(name, base, dk, ds) ==
    LET gp == get_doc_path(name, base, ds, dk)
        ds2 == DirsAfter(gp, ds)
    IN  IF gp.res.raised THEN [res |-> gp.res, path |-> <<>>, disk |-> dk, dirs |-> ds2]
        ELSE [res |-> BaseHandlerInit(Val(gp.res.value), dk), path |-> Val(gp.res.value),
              disk |-> dk, dirs |-> ds2]

HandlerDocument(h) == Val(h.res.value)

\* result = handler.<method>(...): m is what the method gives, and it is
\* called only when the handler was made
Invoke(h, m) ==
    IF h.res.raised THEN [res |-> h.res, disk |-> h.disk, dirs |-> h.dirs]
    ELSE [res |-> m.res, disk |-> m.disk, dirs |-> h.dirs]

Tool(caught, code, suggestion, r) ==
    [out |-> Envelope(caught, code, suggestion, r.res), disk |-> r.disk, dirs |-> r.dirs]

---------------------------------------------------------------------------
(* api/paragraph_tools.py                                                  *)

ParagraphSuggestion == "Please check if the paragraph index and section index are valid."

paragraph_tools_get_paragraph_text(name, p, s, base, dk, ds) ==
    LET h == OpenHandler(name, base, dk, ds)
    IN  Tool("ParagraphError", "PARAGRAPH_TEXT_ERROR", ParagraphSuggestion,
             Invoke(h, ParagraphHandler_get_paragraph_text(HandlerDocument(h), h.path, p, s, dk)))

paragraph_tools_delete_paragraph(name, p, s, base, dk, ds) ==
    LET h == OpenHandler(name, base, dk, ds)
    IN  Tool("ParagraphError", "PARAGRAPH_DELETE_ERROR", ParagraphSuggestion,
             Invoke(h, ParagraphHandler_delete_paragraph(HandlerDocument(h), h.path, p, s, dk)))

paragraph_tools_get_paragraph_info(name, p, s, base, dk, ds) ==
    LET h == OpenHandler(name, base, dk, ds)
    IN  Tool("ParagraphError", "PARAGRAPH_INFO_ERROR", ParagraphSuggestion,
             Invoke(h, ParagraphHandler_get_paragraphinfo(HandlerDocument(h), h.path, p, s, dk)))

paragraph_tools_add_paragraph(name, text, s, pidx, base, dk, ds) ==
    LET h == OpenHandler(name, base, dk, ds)
    IN  Tool("ParagraphError", "PARAGRAPH_ADD_ERROR",
         "Please check if the section index and paragraph index are valid.",
             Invoke(h, ParagraphHandler_add_paragraph(HandlerDocument(h), h.path, text, s, pidx, dk)))

paragraph_tools_update_paragraph_text(name, p, new_text, s, base, dk, ds) ==
    LET h == OpenHandler(name, base, dk, ds)
    IN  Tool("ParagraphError", "PARAGRAPH_UPDATE_ERROR", ParagraphSuggestion,
             Invoke(h, ParagraphHandler_update_paragraph_text(HandlerDocument(h), h.path, p, new_text, s, dk)))

---------------------------------------------------------------------------
(* core/document.py and api/document_tools.py                              *)

\* DocumentHandler.__init__(doc_path, create_if_not_exists): the handler's
\* optional document (None when the file is yet to be created), or the error
DocumentHandlerInit(path, create_if_not_exists, dk) ==
    IF create_if_not_exists /\ ~IsFile(path, dk)
    THEN IF path = <<>> THEN Raise("DocumentError", "Document path cannot be empty")
         ELSE IF ~HasDocExt(path) THEN Raise("DocumentError", "Unsupported document format")
         ELSE Return(None)
    ELSE LET h == BaseHandlerInit(path, dk)
         IN  IF h.raised THEN h ELSE Return(Some(Val(h.value)))

CreateKeepsExisting(path, template, reload, dk) ==
    [res |-> Return([path |-> NormPath(path), name |-> BaseName(path)]),
     disk |-> IF IsFile(path, dk) THEN dk ELSE SaveToFile(dk, path, Saved(NewDocument, reload))]

\* DocumentHandler.create_document(template_path); reload is what the file
\* of the engine's section-less Document() holds when it is loaded again
DocumentHandler_create_document(path, template, reload, dk) ==
    IF ~IsNone(template) /\ Val(template) # <<>> /\ IsFile(Val(template), dk)
    THEN LET f == dk[NormPath(Val(template))]
         IN  IF ~f.valid \/ ~f.r
             THEN [res |-> Raise("DocumentError", "Failed to create document"), disk |-> dk]
             ELSE [res |-> Return([path |-> NormPath(path), name |-> BaseName(path)]),
                   disk |-> SaveToFile(dk, path, f.sections)]
    ELSE [res |-> Return([path |-> NormPath(path), name |-> BaseName(path)]),
          disk |-> SaveToFile(dk, path, Saved(NewDocument, reload))]

document_tools_create_document(name, template, reload, base, dk, ds) ==
    LET gp == get_doc_path(name, base, ds, dk)
        ds2 == DirsAfter(gp, ds)
        h == DocumentHandlerInit(Val(gp.res.value), TRUE, dk)
        m == DocumentHandler_create_document(Val(gp.res.value), template, reload, dk)
        r == IF gp.res.raised THEN [res |-> gp.res, disk |-> dk, dirs |-> ds2]
             ELSE IF h.raised THEN [res |-> h, disk |-> dk, dirs |-> ds2]
             ELSE [res |-> m.res, disk |-> m.disk, dirs |-> ds2]
    IN  Tool("DocumentError", "DOC_CREATE_ERROR",
             "Please check if the document name is valid and you have write permissions.", r)

\* the engine calls BaseHandler.__init__ makes: the document is loaded once
\* the path, the file, the extension and the permissions have passed
EngineLoad(path, dk) ==
    IF path # <<>> /\ IsFile(path, dk) /\ HasDocExt(path)
       /\ dk[NormPath(path)].r /\ dk[NormPath(path)].w
    THEN <<"LoadFromFile">> ELSE <<>>

\* document.SaveToFile(path) of a document with its protection and watermark
SaveDocument(dk, path, sections, protection, watermark) ==
    LET n == NormPath(path)
        saved == SaveToFile(dk, path, sections)
    IN  [saved EXCEPT ![n].protection = protection, ![n].watermark = watermark]

\* utils/constants.py: the keys of PROTECTION_TYPES
PROTECTION_TYPES == {"none", "read_only", "form_filling", "comments", "revisions"}

\* DocumentHandler.protect_document: the document of the handler (doc) is
\* the one loaded from the file at the path
DocumentHandler_protect_document(doc, path, protection_level, dk) ==
    IF IsNone(doc) \/ protection_level \notin PROTECTION_TYPES
    THEN [res |-> Raise("DocumentError", "Failed to protect document"), disk |-> dk,
          engine |-> <<>>]
    ELSE [res |-> Return([protection_level |-> protection_level, is_protected |-> TRUE]),
          disk |-> SaveDocument(dk, path, Val(doc), protection_level,
                                dk[NormPath(path)].watermark),
          engine |-> <<"Protect", "SaveToFile">>]

\* the tool functions of api/document_tools.py that open the document: gp is
\* what get_doc_path gave, h the handler made, m what the method gives
DocumentTool(code, suggestion, gp, h, m, dk, ds) ==
    LET ds2 == DirsAfter(gp, ds)
        load == EngineLoad(Val(gp.res.value), dk)
        r == IF gp.res.raised THEN [res |-> gp.res, disk |-> dk, engine |-> <<>>]
             ELSE IF h.raised THEN [res |-> h, disk |-> dk, engine |-> load]
             ELSE [res |-> m.res, disk |-> m.disk, engine |-> load \o m.engine]
    IN  [out |-> Envelope("DocumentError", code, suggestion, r.res),
         disk |-> r.disk, dirs |-> ds2, engine |-> r.engine]

document_tools_set_document_protection(name, protection_level, base, dk, ds) ==
    LET gp == get_doc_path(name, base, ds, dk)
        h == DocumentHandlerInit(Val(gp.res.value), FALSE, dk)
    IN  DocumentTool("DOC_PROTECT_ERROR",
            "Please check if the protection level is valid and you have the necessary permissions.",
            gp, h,
            DocumentHandler_protect_document(Val(h.value), Val(gp.res.value), protection_level, dk),
            dk, ds)

\* the colors of the engine: Color.get_<name>() is there for these names
Palette == {"Red", "Blue", "Green"}

WatermarkColorOrRed(color) == IF color \in Palette THEN Some(color) ELSE Some("Red")

\* getattr(Color, f"get_{color}")(): the color, or None when the attribute
\* is missing and AttributeError is raised
WatermarkColor(color) == IF color \in Palette THEN Some(color) ELSE None

\* DocumentHandler.add_text_watermark
DocumentHandler_add_text_watermark(doc, path, text, color, dk) ==
    IF IsNone(doc) \/ IsNone(WatermarkColor(color))
    THEN [res |-> Raise("DocumentError", "Failed to add text watermark"), disk |-> dk,
          engine |-> <<>>]
    ELSE LET wm == [text |-> text, color |-> Val(WatermarkColor(color))]
         IN  [res |-> Return([success |-> TRUE,
                              watermark_info |-> [text |-> text, color |-> color]]),
              disk |-> SaveDocument(dk, path, Val(doc), dk[NormPath(path)].protection,
                                    Some(wm)),
              engine |-> <<"set_Watermark", "SaveToFile">>]

document_tools_add_text_watermark(name, text, color, base, dk, ds) ==
    LET gp == get_doc_path(name, base, ds, dk)
        h == DocumentHandlerInit(Val(gp.res.value), FALSE, dk)
    IN  DocumentTool("DOC_WATERMARK_ERROR",
            "Please check if the document exists and the watermark parameters are valid.",
            gp, h,
            DocumentHandler_add_text_watermark(Val(h.value), Val(gp.res.value), text, color, dk),
            dk, ds)

\* DocumentHandler.merge_documents: a second copy of the original is loaded,
\* the engine inserts the content of the file to merge after it, and the
\* result is saved to the output path
DocumentHandler_merge_documents(doc, path, merge_path, output_path, dk, ds) ==
    LET fail == [res |-> Raise("DocumentError", "Failed to merge documents"), disk |-> dk]
        orig == dk[NormPath(path)]
        mp == NormPath(merge_path)
        op == NormPath(output_path)
    IN  IF ~Exists(merge_path, ds, dk) \/ IsNone(doc)
        THEN fail @@ [engine |-> <<>>]
        ELSE IF mp \notin DOMAIN dk \/ ~dk[mp].valid \/ ~dk[mp].r
        THEN fail @@ [engine |-> <<"LoadFromFile", "InsertTextFromFile">>]
        ELSE IF output_path = <<>> \/ op \in ds \/ (op \in DOMAIN dk /\ ~dk[op].w)
        THEN fail @@ [engine |-> <<"LoadFromFile", "InsertTextFromFile", "SaveToFile">>]
        ELSE [res |-> Return([success |-> TRUE, output_path |-> op,
                              merge_stats |-> [merge_document |-> mp,
                                               output_document |-> op]]),
              disk |-> SaveDocument(dk, output_path, orig.sections \o dk[mp].sections,
                                    orig.protection, orig.watermark),
              engine |-> <<"LoadFromFile", "InsertTextFromFile", "SaveToFile">>]

document_tools_merge_documents(original_document, merge_document, output_document, base, dk, ds) ==
    LET gp == get_doc_path(original_document, base, ds, dk)
        ds1 == DirsAfter(gp, ds)
        gm == get_doc_path(merge_document, base, ds1, dk)
        ds2 == DirsAfter(gm, ds1)
        go == get_doc_path(output_document, base, ds2, dk)
        ds3 == DirsAfter(go, ds2)
        gall == IF gp.res.raised THEN gp ELSE IF gm.res.raised THEN gm ELSE go
        dsn == IF gp.res.raised THEN ds1 ELSE IF gm.res.raised THEN ds2 ELSE ds3
        original_path == Val(gp.res.value)
        h == DocumentHandlerInit(original_path, FALSE, dk)
        m == DocumentHandler_merge_documents(Val(h.value), original_path, Val(gm.res.value),
                                             Val(go.res.value), dk, dsn)
        r == IF gall.res.raised THEN [res |-> gall.res, disk |-> dk, engine |-> <<>>]
             ELSE IF h.raised
             THEN [res |-> h, disk |-> dk, engine |-> EngineLoad(original_path, dk)]
             ELSE [res |-> m.res, disk |-> m.disk,
                   engine |-> EngineLoad(original_path, dk) \o m.engine]
    IN  [out |-> Envelope("DocumentError", "DOC_MERGE_ERROR",
                          "Please check if both documents exist and are accessible.", r.res),
         disk |-> r.disk, dirs |-> dsn, engine |-> r.engine]

---------------------------------------------------------------------------
(* core/table.py and api/table_tools.py                                    *)

TableAt(body, t) == body[TablePos(body)[t + 1]]

\* TableHandler.get_table_info: what is raised inside is re-raised as TableError
TableHandler_get_table_info(doc, path, t, s, dk) ==
    LET v == ValidateSectionIndex(doc, s)
    IN  IF ~IsNone(v) THEN [res |-> Raise("TableError", Val(v)), disk |-> dk]
        ELSE IF t < 0 \/ t >= TableCount(doc[s + 1])
        THEN [res |-> Raise("TableError", "Invalid table index"), disk |-> dk]
        ELSE LET cells == TableAt(doc[s + 1], t).cells
                 columns == IF Len(cells) > 0 THEN Len(cells[1]) ELSE 0
             IN  [res |-> Return([table_index |-> t, section_index |-> s,
                                  rows |-> Len(cells), columns |-> columns,
                                  total_cells |-> Len(cells) * columns]),
                  disk |-> dk]

AppendCellText(cell, text) == Append(cell, text)

\* a cell is the sequence of the texts of its paragraphs: the text of the
\* first is set, and a cell without a paragraph is given one
SetCellText(cell, text) == IF Len(cell) > 0 THEN [cell EXCEPT ![1] = text] ELSE <<text>>

TableHandler_set_cell_text(doc, path, t, row, column, text, s, dk) ==
    LET info == TableHandler_get_table_info(doc, path, t, s, dk).res
    IN  IF info.raised THEN [res |-> info, disk |-> dk]
        ELSE IF row < 0 \/ row >= Val(info.value).rows
        THEN [res |-> Raise("TableError", "Invalid row index"), disk |-> dk]
        ELSE IF column < 0 \/ column >= Val(info.value).columns
        THEN [res |-> Raise("TableError", "Invalid column index"), disk |-> dk]
        ELSE LET pos == TablePos(doc[s + 1])[t + 1]
                 cells == doc[s + 1][pos].cells
             IN  IF column >= Len(cells[row + 1])
                 THEN [res |-> Raise("TableError", "Failed to set cell text"), disk |-> dk]
                 ELSE LET cell == cells[row + 1][column + 1]
                          original_text == IF Len(cell) > 0 THEN cell[1] ELSE ""
                          cell2 == SetCellText(cell, text)
                          doc2 == [doc EXCEPT ![s + 1][pos].cells[row + 1][column + 1] = cell2]
                      IN  [res |-> Return([section_index |-> s, table_index |-> t,
                                           row |-> row, column |-> column,
                                           original_text |-> original_text,
                                           new_text |-> text]),
                           disk |-> SaveToFile(dk, path, doc2)]

Min(a, b) == IF a < b THEN a ELSE b

\* the dimensions create_table accepts
DimensionsUnchecked(rows, columns) == None

DimensionsError(rows, columns) ==
    IF rows <= 0 \/ columns <= 0 THEN Some("Table dimensions must be positive")
    ELSE IF rows > 1000 \/ columns > 100 THEN Some("Table dimensions too large")
    ELSE None

\* every exception other than a TableError is wrapped in one
TableHandler_create_table(doc, path, rows, columns, s, pidx, dk) ==
    LET v == ValidateSectionIndex(doc, s)
        pv == IF IsNone(pidx) THEN None ELSE ValidateParagraphIndex(doc, Val(pidx), s)
        d == DimensionsError(rows, columns)
    IN  IF ~IsNone(v) \/ ~IsNone(pv)
        THEN [res |-> Raise("TableError", "Failed to create table"), disk |-> dk]
        ELSE IF ~IsNone(d) THEN [res |-> Raise("TableError", Val(d)), disk |-> dk]
        ELSE LET added == AddTable(doc[s + 1], rows, columns)
                 insert_index == Min(Val(pidx) + 1, TableCount(added))
                 body == IF IsNone(pidx) THEN added
                         ELSE TablesInsert(added, insert_index, Len(added)).body
                 doc2 == [doc EXCEPT ![s + 1] = body]
             IN  [res |-> Return([success |-> TRUE, table_index |-> TableCount(body) - 1,
                                  section_index |-> s, paragraph_index |-> pidx,
                                  dimensions |-> [rows |-> rows, columns |-> columns],
                                  total_tables_in_section |-> TableCount(body)]),
                  disk |-> SaveToFile(dk, path, doc2)]

table_tools_create_table(name, rows, columns, s, pidx, base, dk, ds) ==
    LET h == OpenHandler(name, base, dk, ds)
    IN  Tool("TableError", "TABLE_CREATE_ERROR",
         "Please check if the table dimensions and section/paragraph indices are valid.",
             Invoke(h, TableHandler_create_table(HandlerDocument(h), h.path, rows, columns, s, pidx, dk)))

TableSuggestion ==
    "Please check if the table index, row, column, and section index are valid."

table_tools_get_table_info(name, t, s, base, dk, ds) ==
    LET h == OpenHandler(name, base, dk, ds)
    IN  Tool("TableError", "TABLE_INFO_ERROR",
         "Please check if the table index and section index are valid.",
             Invoke(h, TableHandler_get_table_info(HandlerDocument(h), h.path, t, s, dk)))

table_tools_set_cell_text(name, t, row, column, text, s, base, dk, ds) ==
    LET h == OpenHandler(name, base, dk, ds)
    IN  Tool("TableError", "TABLE_CELL_ERROR", TableSuggestion,
             Invoke(h, TableHandler_set_cell_text(HandlerDocument(h), h.path, t, row, column, text, s, dk)))

---------------------------------------------------------------------------
(* The server (server.py): every tool is called with WORD_FILES_PATH.      *)

WORD_FILES_PATH == <<DOT, SEP, "word_files">>

A_DOCX == <<"a", DOT, "docx">>
M_DOCX == <<"m", DOT, "docx">>
UP_DOCX == <<DOT, DOT, SEP>> \o A_DOCX

\* the document names the tools are called with: a.docx, a name whose file
\* is never there, a name that leaves the directory
DocNames == {A_DOCX, M_DOCX, UP_DOCX}
Texts == {"Hello", "World"}
\* paragraph indices; row and column indices; section indices
Indices == -1..MaxBody
CellIndices == -1..1
SectionIndices == 0..1
OptIndices == {None} \cup {Some(i) : i \in Indices}

WordDir == NormPath(WORD_FILES_PATH)
APath == NormPath(PathJoin(WORD_FILES_PATH, A_DOCX))

\* the documents a.docx may hold when the server starts
InitFiles ==
    {FileOf(<<body>>) : body \in {<<>>, <<Para("Hello")>>, <<Para("Hello"), Para("World")>>,
                                  <<Para("Hello"), NewTable(1, 1)>>}}
    \cup {FileOf(<<<<Para("Hello")>>, <<Para("World")>>>>),
          InvalidFile}

NoCall == [tool |-> "none", name |-> <<>>, args |-> <<>>,
           out |-> [outcome |-> "none"], before |-> <<>>]

NoFiles == [n \in {} |-> 0]

Init ==
    /\ \/ dirs = {} /\ disk = NoFiles
       \/ dirs = Ancestors(WordDir) /\ disk = NoFiles
       \/ dirs = Ancestors(WordDir) /\ \E f \in InitFiles : disk = [n \in {APath} |-> f]
    /\ last = NoCall
    /\ convCalls = <<>>

RECURSIVE SumLen(_)
SumLen(ss) == IF ss = <<>> THEN 0 ELSE Len(Head(ss)) + SumLen(Tail(ss))

\* no document holds more than MaxBody paragraphs and tables
Within(dk) == \A n \in DOMAIN dk : SumLen(dk[n].sections) <= MaxBody

\* a tool call: r is what the tool function gives
Called(tool, name, args, r) ==
    /\ Within(r.disk)
    /\ disk' = r.disk
    /\ dirs' = r.dirs
    /\ last' = [tool |-> tool, name |-> name, args |-> args, out |-> r.out, before |-> disk]
    /\ UNCHANGED convCalls

\* the calls with a name other than a.docx are made with one choice of the
\* other arguments
Plain(name, args) == name = A_DOCX \/ args = <<>>

Call_create_document ==
    \E name \in {A_DOCX, UP_DOCX}, reload \in EmptyReloads :
        /\ Plain(name, IF reload = NewDocument THEN <<>> ELSE <<1>>)
        /\ Called("create_document", name, [template |-> None],
                  document_tools_create_document(name, None, reload, WORD_FILES_PATH, disk, dirs))

Call_get_paragraph_text ==
    \E name \in DocNames, p \in Indices, s \in SectionIndices :
        /\ Plain(name, IF p = 0 /\ s = 0 THEN <<>> ELSE <<1>>)
        /\ Called("get_paragraph_text", name, [p |-> p, s |-> s],
                  paragraph_tools_get_paragraph_text(name, p, s, WORD_FILES_PATH, disk, dirs))

Call_get_paragraph_info ==
    \E name \in DocNames, p \in Indices :
        /\ Plain(name, IF p = 0 THEN <<>> ELSE <<1>>)
        /\ Called("get_paragraph_info", name, [p |-> p, s |-> 0],
                  paragraph_tools_get_paragraph_info(name, p, 0, WORD_FILES_PATH, disk, dirs))

Call_delete_paragraph ==
    \E name \in DocNames, p \in Indices, s \in SectionIndices :
        /\ Plain(name, IF p = 0 /\ s = 0 THEN <<>> ELSE <<1>>)
        /\ Called("delete_paragraph", name, [p |-> p, s |-> s],
                  paragraph_tools_delete_paragraph(name, p, s, WORD_FILES_PATH, disk, dirs))

Call_add_paragraph ==
    \E name \in DocNames, text \in Texts, s \in SectionIndices, pidx \in OptIndices :
        /\ Plain(name, IF text = "Hello" /\ s = 0 /\ pidx = None THEN <<>> ELSE <<1>>)
        /\ Called("add_paragraph", name, [text |-> text, s |-> s, pidx |-> pidx],
                  paragraph_tools_add_paragraph(name, text, s, pidx, WORD_FILES_PATH, disk, dirs))

Call_update_paragraph_text ==
    \E name \in DocNames, p \in Indices, text \in Texts :
        /\ Plain(name, IF p = 0 /\ text = "Hello" THEN <<>> ELSE <<1>>)
        /\ Called("update_paragraph_text", name, [p |-> p, text |-> text, s |-> 0],
                  paragraph_tools_update_paragraph_text(name, p, text, 0, WORD_FILES_PATH, disk, dirs))

Call_get_table_info ==
    \E name \in DocNames, t \in CellIndices :
        /\ Plain(name, IF t = 0 THEN <<>> ELSE <<1>>)
        /\ Called("get_table_info", name, [t |-> t, s |-> 0],
                  table_tools_get_table_info(name, t, 0, WORD_FILES_PATH, disk, dirs))

Call_set_cell_text ==
    \E name \in DocNames, t \in CellIndices, row \in CellIndices, column \in CellIndices,
       text \in Texts :
        /\ Plain(name, IF t = 0 /\ row = 0 /\ column = 0 /\ text = "Hello" THEN <<>> ELSE <<1>>)
        /\ t = 0 \/ (row = 0 /\ column = 0)
        /\ Called("set_cell_text", name,
                  [t |-> t, row |-> row, column |-> column, text |-> text, s |-> 0],
                  table_tools_set_cell_text(name, t, row, column, text, 0, WORD_FILES_PATH, disk, dirs))

Next ==
    \/ Call_create_document
    \/ Call_get_paragraph_text
    \/ Call_get_paragraph_info
    \/ Call_delete_paragraph
    \/ Call_add_paragraph
    \/ Call_update_paragraph_text
    \/ Call_get_table_info
    \/ Call_set_cell_text

Spec == Init /\ [][Next]_vars

---------------------------------------------------------------------------
(* core/format.py: the methods of FormatHandler.  The arguments of a       *)
(* format_paragraph call are a record of optional values, one per field.   *)

NumericParams ==
    <<"first_line_indent", "left_indent", "right_indent", "line_spacing",
      "before_spacing", "after_spacing">>

FormatFields == {"alignment", "line_spacing_rule"} \cup {NumericParams[k] : k \in 1..6}

\* alignment_map and rule_map: the engine's enum member for a lower-case
\* name, None for a name that is not a key (the lookup raises KeyError)
AlignmentMap(a) ==
    CASE a = "left" -> Some("Left")
      [] a = "center" -> Some("Center")
      [] a = "right" -> Some("Right")
      [] a = "justify" -> Some("Justify")
      [] OTHER -> None

RuleMap(r) ==
    CASE r = "at_least" -> Some("AtLeast")
      [] r = "exactly" -> Some("Exactly")
      [] r = "multiple" -> Some("Multiple")
      [] OTHER -> None

\* the first numeric parameter, from the k-th on, that is supplied and negative
RECURSIVE FirstNegative(_, _)
FirstNegative(a, k) ==
    IF k > Len(NumericParams) THEN None
    ELSE IF ~IsNone(a[NumericParams[k]]) /\ Val(a[NumericParams[k]]) < 0
    THEN Some(NumericParams[k])
    ELSE FirstNegative(a, k + 1)

\* FormatHandler._validate_formatting_parameters: the message of the
\* DocumentError, or None
ValidateNoParameters(a) == None

ValidateFormattingParameters(a) ==
    IF ~IsNone(a.alignment)
       /\ Lower(Val(a.alignment)) \notin {"left", "center", "right", "justify"}
    THEN Some("Invalid alignment")
    ELSE IF ~IsNone(a.line_spacing_rule)
            /\ Lower(Val(a.line_spacing_rule)) \notin {"at_least", "exactly", "multiple"}
    THEN Some("Invalid line spacing rule")
    ELSE IF ~IsNone(FirstNegative(a, 1))
    THEN Some(Val(FirstNegative(a, 1)) \o " cannot be negative")
    ELSE None

\* str(paragraph.Format.HorizontalAlignment) and the other fields read back:
\* str of an enum member is the class name, a dot, the member name
Formatting(fmt) ==
    [fmt EXCEPT !.alignment = "HorizontalAlignment." \o fmt.alignment,
                !.line_spacing_rule = "LineSpacingRule." \o fmt.line_spacing_rule]

\* the assignments to paragraph.Format, in the order of the code; a field
\* that is not supplied is not assigned, and the rule is assigned only
\* inside the branch of a supplied line_spacing
ApplyNumeric(fmt, a, f) == IF IsNone(a[f]) THEN fmt ELSE [fmt EXCEPT ![f] = Val(a[f])]

ApplyLineSpacing(fmt, a) ==
    IF IsNone(a.line_spacing) THEN fmt
    ELSE LET f1 == [fmt EXCEPT !.line_spacing = Val(a.line_spacing)]
         IN  IF IsNone(a.line_spacing_rule) THEN f1
             ELSE [f1 EXCEPT !.line_spacing_rule = Val(RuleMap(Lower(Val(a.line_spacing_rule))))]

ApplyFormat(fmt, a) ==
    LET f1 == IF IsNone(a.alignment) THEN fmt
              ELSE [fmt EXCEPT !.alignment = Val(AlignmentMap(Lower(Val(a.alignment))))]
        f2 == ApplyNumeric(f1, a, "first_line_indent")
        f3 == ApplyNumeric(f2, a, "left_indent")
        f4 == ApplyNumeric(f3, a, "right_indent")
        f5 == ApplyLineSpacing(f4, a)
        f6 == ApplyNumeric(f5, a, "before_spacing")
    IN  ApplyNumeric(f6, a, "after_spacing")

\* a map lookup of the apply phase raises KeyError
KeyErrorIn(a) ==
    \/ ~IsNone(a.alignment) /\ IsNone(AlignmentMap(Lower(Val(a.alignment))))
    \/ /\ ~IsNone(a.line_spacing) /\ ~IsNone(a.line_spacing_rule)
       /\ IsNone(RuleMap(Lower(Val(a.line_spacing_rule))))

FormatHandler_format_paragraph(doc, path, p, a, dk) ==
    LET v == ValidateParagraphIndex(doc, p, 0)
        w == ValidateFormattingParameters(a)
    IN  IF ~IsNone(v) THEN [res |-> Raise("DocumentError", Val(v)), disk |-> dk]
        ELSE IF ~IsNone(w) THEN [res |-> Raise("DocumentError", Val(w)), disk |-> dk]
        ELSE IF KeyErrorIn(a)
        THEN [res |-> Raise("DocumentError", "Failed to format paragraph"), disk |-> dk]
        ELSE LET pos == ParaPos(doc[1])[p + 1]
                 original == doc[1][pos].fmt
                 current == ApplyFormat(original, a)
                 doc2 == [doc EXCEPT ![1][pos].fmt = current]
             IN  [res |-> Return([paragraph_index |-> p,
                                  original_formatting |-> Formatting(original),
                                  current_formatting |-> Formatting(current),
                                  changes_applied |-> [f \in FormatFields |-> ~IsNone(a[f])]]),
                  disk |-> SaveToFile(dk, path, doc2)]

FormatHandler_get_paragraph_format(doc, path, p, dk) ==
    LET v == ValidateParagraphIndex(doc, p, 0)
    IN  IF ~IsNone(v) THEN [res |-> Raise("DocumentError", Val(v)), disk |-> dk]
        ELSE [res |-> Return([paragraph_index |-> p,
                              formatting |-> Formatting(ParaAt(doc[1], p).fmt)]),
              disk |-> dk]

---------------------------------------------------------------------------
(* api/format_tools.py                                                     *)

format_tools_format_paragraph(name, p, a, base, dk, ds) ==
    LET h == OpenHandler(name, base, dk, ds)
    IN  Tool("DocumentError", "FORMAT_ERROR",
         "Please check if the paragraph index is valid and the formatting parameters are correct.",
             Invoke(h, FormatHandler_format_paragraph(HandlerDocument(h), h.path, p, a, dk)))

format_tools_get_paragraph_format(name, p, base, dk, ds) ==
    LET h == OpenHandler(name, base, dk, ds)
    IN  Tool("DocumentError", "FORMAT_INFO_ERROR", "Please check if the paragraph index is valid.",
             Invoke(h, FormatHandler_get_paragraph_format(HandlerDocument(h), h.path, p, dk)))

---------------------------------------------------------------------------
(* core/conversion.py: ConversionHandler.  A handler is a record of its    *)
(* doc_path, conversion_history and conversion_status; a method gives the  *)
(* handler it leaves as well.  now stands for datetime.now().  A record   *)
(* of the history has the same fields whether it failed or not: error is   *)
(* "" in a success record, output_path is empty in a failure record.  The  *)
(* output directory is the one get_doc_path has made.                      *)

\* utils/constants.py: the keys of SUPPORTED_FORMATS
SUPPORTED_FORMATS == {"docx", "doc", "pdf", "rtf", "txt", "html", "epub", "odt", "xml", "md"}

\* ConversionHandler.__init__
ConversionHandlerInit(doc_path) ==
    [doc_path |-> doc_path, conversion_history |-> <<>>, conversion_status |-> None]

\* ConversionHandler._load_document
ConversionHandler_load_document(h, dk) ==
    IF h.doc_path = <<>> THEN Raise("DocumentError", "No document path provided")
    ELSE IF ~IsFile(h.doc_path, dk) THEN Raise("DocumentError", "Failed to load document")
    ELSE LET f == dk[NormPath(h.doc_path)]
         IN  IF ~f.r \/ ~f.valid THEN Raise("DocumentError", "Failed to load document")
             ELSE Return(f.sections)

\* the position of the last dot of p, 0 when it has none
RECURSIVE RFindDot(_)
RFindDot(p) ==
    IF p = <<>> THEN 0
    ELSE IF p[Len(p)] = DOT THEN Len(p)
    ELSE RFindDot(SubSeq(p, 1, Len(p) - 1))

\* p.rsplit('.', 1)[0] and p.split('.')[-1]
BeforeLastDot(p) == IF RFindDot(p) = 0 THEN p ELSE SubSeq(p, 1, RFindDot(p) - 1)
AfterLastDot(p) == SubSeq(p, RFindDot(p) + 1, Len(p))

\* the last token of a path, lower-cased, as the source_format string
SourceFormat(p) == IF AfterLastDot(p) = <<>> THEN "" ELSE Lower(AfterLastDot(p)[Len(AfterLastDot(p))])

RecordLatestOnly(h, info) ==
    [h EXCEPT !.conversion_history = <<info>>, !.conversion_status = Some(info)]

\* self.conversion_history.append(info); self.conversion_status = info
RecordConversion(h, info) ==
    [h EXCEPT !.conversion_history = Append(@, info), !.conversion_status = Some(info)]

\* p.lower().endswith('.' + target)
EndsWithFormat(p, target) ==
    Len(p) >= 2 /\ p[Len(p) - 1] = DOT /\ Lower(p[Len(p)]) = target

\* the path convert_document saves to: made from doc_path when no
\* output_path is given, else output_path, its extension replaced when it is
\* not the target format
ConvertOutputPath(doc_path, target, output_path) ==
    IF IsNone(output_path) THEN BeforeLastDot(doc_path) \o <<DOT, target>>
    ELSE IF EndsWithFormat(Val(output_path), target) THEN Val(output_path)
    ELSE BeforeLastDot(Val(output_path)) \o <<DOT, target>>

\* ConversionHandler.convert_document(target_format, output_path): os.makedirs
\* fails when a file stands where a directory is to be made, SaveToFile when
\* the path is a directory or a file that cannot be written
ConversionHandler_convert_to(h, target_format, output_path, now, dk, ds) ==
    LET target == Lower(target_format)
        loaded == ConversionHandler_load_document(h, dk)
        out == ConvertOutputPath(h.doc_path, target, output_path)
        output_dir == DirName(out)
        makes == output_dir # <<>> /\ ~Exists(output_dir, ds, dk)
        made == IF makes THEN Ancestors(NormPath(output_dir)) ELSE {}
        failure == IF target \notin SUPPORTED_FORMATS THEN Some("Unsupported format")
                   ELSE IF loaded.raised THEN Some(loaded.msg)
                   ELSE IF made \cap DOMAIN dk # {} THEN Some("makedirs")
                   ELSE IF NormPath(out) \in ds \cup made
                           \/ (NormPath(out) \in DOMAIN dk /\ ~dk[NormPath(out)].w)
                   THEN Some("SaveToFile")
                   ELSE None
        reached == target \in SUPPORTED_FORMATS /\ ~loaded.raised /\ made \cap DOMAIN dk = {}
        info == IF IsNone(failure)
                THEN [timestamp |-> now, source_format |-> SourceFormat(h.doc_path),
                      target_format |-> target, output_path |-> out,
                      error |-> "", status |-> "success"]
                ELSE [timestamp |-> now, source_format |-> SourceFormat(h.doc_path),
                      target_format |-> target, output_path |-> <<>>,
                      error |-> Val(failure), status |-> "failed"]
        h2 == RecordConversion(h, info)
    IN  IF IsNone(failure)
        THEN [res |-> Return([source_format |-> info.source_format,
                              target_format |-> target,
                              output_path |-> out, timestamp |-> now]),
              disk |-> SaveToFile(dk, out, Val(loaded.value)), dirs |-> ds \cup made,
              handler |-> h2]
        ELSE [res |-> Raise("ConversionError", "Failed to convert document: " \o Val(failure)),
              disk |-> dk, dirs |-> IF reached THEN ds \cup made ELSE ds, handler |-> h2]

\* convert_document(target_format): no output_path, and the directory of the
\* document is there
ConversionHandler_convert_document(h, target_format, now, dk) ==
    LET r == ConversionHandler_convert_to(h, target_format, None, now, dk,
                                          Ancestors(NormPath(DirName(h.doc_path))))
    IN  [res |-> r.res, disk |-> r.disk, handler |-> r.handler]

ConversionHandler_get_conversion_status(h) == h.conversion_status

ConversionHandler_get_conversion_history(h) ==
    [history |-> h.conversion_history, total_conversions |-> Len(h.conversion_history)]

---------------------------------------------------------------------------
(* api/conversion_tools.py: every tool function makes its own handler.     *)

\* doc_path = get_doc_path(...); handler = ConversionHandler(doc_path)
OpenConversionHandler(name, base, dk, ds) ==
    LET gp == get_doc_path(name, base, ds, dk)
        ds2 == DirsAfter(gp, ds)
    IN  IF gp.res.raised THEN [res |-> gp.res, path |-> <<>>, disk |-> dk, dirs |-> ds2]
        ELSE [res |-> Return(ConversionHandlerInit(Val(gp.res.value))),
              path |-> Val(gp.res.value), disk |-> dk, dirs |-> ds2]

\* the tool convert_document with its output_path
conversion_tools_convert_to(name, target_format, output_path, now, base, dk, ds) ==
    LET h == OpenConversionHandler(name, base, dk, ds)
        m == ConversionHandler_convert_to(HandlerDocument(h), target_format, output_path,
                                          now, dk, h.dirs)
    IN  Tool("ConversionError", "CONVERSION_ERROR",
             "Please check if the document exists and the target format is supported.",
             IF h.res.raised THEN [res |-> h.res, disk |-> h.disk, dirs |-> h.dirs]
             ELSE [res |-> m.res, disk |-> m.disk, dirs |-> m.dirs])

\* the tool convert_document called without an output_path
conversion_tools_convert_document(name, target_format, now, base, dk, ds) ==
    conversion_tools_convert_to(name, target_format, None, now, base, dk, ds)

conversion_tools_get_conversion_status(name, base, dk, ds) ==
    LET h == OpenConversionHandler(name, base, dk, ds)
    IN  Tool("ConversionError", "CONVERSION_STATUS_ERROR", "Please check if the document exists.",
             Invoke(h, [res |-> Return(ConversionHandler_get_conversion_status(HandlerDocument(h))),
                        disk |-> dk]))

conversion_tools_get_conversion_history(name, base, dk, ds) ==
    LET h == OpenConversionHandler(name, base, dk, ds)
    IN  Tool("ConversionError", "CONVERSION_HISTORY_ERROR", "Please check if the document exists.",
             Invoke(h, [res |-> Return(ConversionHandler_get_conversion_history(HandlerDocument(h))),
                        disk |-> dk]))

---------------------------------------------------------------------------
(* SpecFormat: the format tools, called on a.docx.                         *)

NoArgs == [f \in FormatFields |-> None]

\* the arguments of the format_paragraph calls: a valid value, an invalid
\* value or nothing for each of alignment, left_indent, line_spacing and
\* line_spacing_rule; and, beside a valid alignment, a negative value for
\* one of the other numeric fields
FormatCalls ==
    {[NoArgs EXCEPT !.alignment = al, !.left_indent = li,
                    !.line_spacing = ls, !.line_spacing_rule = lr] :
        al \in {None, Some("center"), Some("CENTER"), Some("middle")},
        li \in {None, Some(6), Some(-1)},
        ls \in {None, Some(18), Some(-1)},
        lr \in {None, Some("exactly"), Some("bogus")}}
    \cup {[NoArgs EXCEPT !.alignment = Some("center"), ![f] = Some(-1)] :
             f \in {"first_line_indent", "right_indent", "before_spacing", "after_spacing"}}

FormatIndices == 0..1

\* a.docx holds one paragraph, after a table or alone, or is not there
InitFormat ==
    /\ dirs = Ancestors(WordDir)
    /\ \/ disk = NoFiles
       \/ \E body \in {<<Para("Hello")>>, <<NewTable(1, 1), Para("Hello")>>} :
              disk = [n \in {APath} |-> FileOf(<<body>>)]
    /\ last = NoCall
    /\ convCalls = <<>>

Call_format_paragraph ==
    \E name \in {A_DOCX, UP_DOCX}, p \in FormatIndices, a \in FormatCalls :
        /\ Plain(name, IF p = 0 /\ a = NoArgs THEN <<>> ELSE <<1>>)
        /\ Called("format_paragraph", name, [p |-> p, a |-> a],
                  format_tools_format_paragraph(name, p, a, WORD_FILES_PATH, disk, dirs))

Call_get_paragraph_format ==
    \E name \in {A_DOCX, UP_DOCX}, p \in FormatIndices :
        /\ Plain(name, IF p = 0 THEN <<>> ELSE <<1>>)
        /\ Called("get_paragraph_format", name, [p |-> p],
                  format_tools_get_paragraph_format(name, p, WORD_FILES_PATH, disk, dirs))

NextFormat ==
    \/ Call_format_paragraph
    \/ Call_get_paragraph_format

SpecFormat == InitFormat /\ [][NextFormat]_vars

---------------------------------------------------------------------------
(* SpecConv: the conversion tools.  convCalls is the log of the            *)
(* convert_document calls: what was asked and the envelope returned.       *)

TargetFormats == {"pdf", "PDF", "xyz"}

Call_convert_document ==
    \E target_format \in TargetFormats :
        LET r == conversion_tools_convert_document(A_DOCX, target_format, Len(convCalls) + 1,
                                                   WORD_FILES_PATH, disk, dirs)
        IN  /\ Len(convCalls) < MaxConvCalls
            /\ disk' = r.disk
            /\ dirs' = r.dirs
            /\ last' = [tool |-> "convert_document", name |-> A_DOCX,
                        args |-> [target_format |-> target_format],
                        out |-> r.out, before |-> disk]
            /\ convCalls' = Append(convCalls, [name |-> A_DOCX, target_format |-> target_format,
                                               timestamp |-> Len(convCalls) + 1,
                                               out |-> r.out])

Call_get_conversion_status ==
    \E name \in {A_DOCX, UP_DOCX} :
        LET r == conversion_tools_get_conversion_status(name, WORD_FILES_PATH, disk, dirs)
        IN  /\ disk' = r.disk
            /\ dirs' = r.dirs
            /\ last' = [tool |-> "get_conversion_status", name |-> name, args |-> <<>>,
                        out |-> r.out, before |-> disk]
            /\ UNCHANGED convCalls

Call_get_conversion_history ==
    \E name \in {A_DOCX, UP_DOCX} :
        LET r == conversion_tools_get_conversion_history(name, WORD_FILES_PATH, disk, dirs)
        IN  /\ disk' = r.disk
            /\ dirs' = r.dirs
            /\ last' = [tool |-> "get_conversion_history", name |-> name, args |-> <<>>,
                        out |-> r.out, before |-> disk]
            /\ UNCHANGED convCalls

NextConv ==
    \/ Call_convert_document
    \/ Call_get_conversion_status
    \/ Call_get_conversion_history

SpecConv == Init /\ [][NextConv]_vars

---------------------------------------------------------------------------
(* SpecPath: get_doc_path on the names and base directories of at most     *)
(* MaxNameLen and MaxBaseLen tokens, in a file system where only the       *)
(* working directory and the root exist.                                   *)

PathTokens == {SEP, DOT, "a"}

RECURSIVE SeqsUpTo(_, _)
SeqsUpTo(S, n) ==
    IF n = 0 THEN {<<>>}
    ELSE SeqsUpTo(S, n - 1) \cup {Append(q, x) : q \in {r \in SeqsUpTo(S, n - 1) : Len(r) = n - 1}, x \in S}

PathNames == SeqsUpTo(PathTokens, MaxNameLen)
PathBases == SeqsUpTo(PathTokens, MaxBaseLen) \cup {WORD_FILES_PATH}

InitPath ==
    /\ disk = NoFiles
    /\ dirs = {}
    /\ convCalls = <<>>
    /\ \E name \in PathNames, base \in PathBases :
           last = [tool |-> "input", name |-> name, args |-> [base |-> base],
                   out |-> [outcome |-> "none"], before |-> NoFiles]

Call_get_doc_path ==
    LET r == get_doc_path(last.name, last.args.base, dirs, disk)
    IN  /\ last.tool = "input"
        /\ last' = [last EXCEPT !.tool = "get_doc_path",
                                !.out = [outcome |-> IF r.res.raised THEN "raised" ELSE "returned",
                                         res |-> r.res]]
        /\ dirs' = DirsAfter(r, dirs)
        /\ UNCHANGED <<disk, convCalls>>

NextPath == Call_get_doc_path

SpecPath == InitPath /\ [][NextPath]_vars

---------------------------------------------------------------------------
(* SpecTable: the table tools, called on a.docx.  The file may come from   *)
(* elsewhere: its tables need not be rectangular.                          *)

\* a table with the given cells, row by row
TableOf(cells) == [kind |-> "table", text |-> "", fmt |-> DefaultFormat, cells |-> cells]

\* the bodies a.docx may hold when the server starts: paragraphs only, a
\* table between paragraphs, a 2 x 2 table with one filled cell, and tables
\* whose second row is shorter or longer than the first
TableBodies ==
    {<<>>, <<Para("Hello"), Para("World")>>,
     <<Para("Hello"), NewTable(1, 1), Para("World")>>,
     <<TableOf(<<<< <<"Hello", "World">>, <<>> >>, << <<>>, <<>> >>>>)>>,
     <<TableOf(<<<< <<>>, <<>> >>, << <<>> >>>>)>>,
     <<TableOf(<<<< <<>> >>, << <<>>, <<>> >>>>)>>}

InitTable ==
    /\ dirs = Ancestors(WordDir)
    /\ \/ disk = NoFiles
       \/ \E body \in TableBodies : disk = [n \in {APath} |-> FileOf(<<body>>)]
    /\ last = NoCall
    /\ convCalls = <<>>

TableCellIndices == -1..2

Table_get_table_info ==
    \E t \in CellIndices, s \in SectionIndices :
        /\ t = 0 \/ s = 0
        /\ Called("get_table_info", A_DOCX, [t |-> t, s |-> s],
                  table_tools_get_table_info(A_DOCX, t, s, WORD_FILES_PATH, disk, dirs))

Table_set_cell_text ==
    \E t \in CellIndices, row \in TableCellIndices, column \in TableCellIndices, text \in Texts :
        /\ t = 0 \/ (row = 0 /\ column = 0)
        /\ Called("set_cell_text", A_DOCX,
                  [t |-> t, row |-> row, column |-> column, text |-> text, s |-> 0],
                  table_tools_set_cell_text(A_DOCX, t, row, column, text, 0,
                                            WORD_FILES_PATH, disk, dirs))

NextTable ==
    \/ Table_get_table_info
    \/ Table_set_cell_text

SpecTable == InitTable /\ [][NextTable]_vars

---------------------------------------------------------------------------
(* SpecCreate: create_table, called on a.docx.                             *)

\* the bodies a.docx may hold when the server starts
CreateBodies ==
    {<<>>, <<Para("Hello")>>, <<Para("Hello"), Para("World")>>,
     <<NewTable(1, 1), Para("Hello")>>, <<Para("Hello"), NewTable(1, 1)>>}

InitCreate ==
    /\ dirs = Ancestors(WordDir)
    /\ \/ disk = NoFiles
       \/ \E body \in CreateBodies : disk = [n \in {APath} |-> FileOf(<<body>>)]
       \/ disk = [n \in {APath} |-> FileOf(<<<<Para("Hello")>>, <<Para("World")>>>>)]
    /\ last = NoCall
    /\ convCalls = <<>>

\* the dimensions create_table is called with: at and beside each limit
Dimensions ==
    {<<1, 1>>, <<1000, 1>>, <<1, 100>>,
     <<0, 1>>, <<1, 0>>, <<-1, -1>>, <<1001, 1>>, <<1, 101>>, <<1001, 0>>}

\* paragraph_index: None, or an index
OptParagraphIndices == {None} \cup {Some(p) : p \in -1..2}

Create_create_table ==
    \E d \in Dimensions, s \in SectionIndices, pidx \in OptParagraphIndices :
        /\ d = <<1, 1>> \/ (s = 0 /\ pidx \in {None, Some(0), Some(1)})
        /\ Called("create_table", A_DOCX,
                  [rows |-> d[1], columns |-> d[2], s |-> s, pidx |-> pidx],
                  table_tools_create_table(A_DOCX, d[1], d[2], s, pidx,
                                           WORD_FILES_PATH, disk, dirs))

Create_get_table_info ==
    \E t \in CellIndices :
        /\ Called("get_table_info", A_DOCX, [t |-> t, s |-> 0],
                  table_tools_get_table_info(A_DOCX, t, 0, WORD_FILES_PATH, disk, dirs))

NextCreate ==
    \/ Create_create_table
    \/ Create_get_table_info

SpecCreate == InitCreate /\ [][NextCreate]_vars

---------------------------------------------------------------------------
(* SpecDoc: the document tools that protect, watermark and merge, called   *)
(* on the files a.docx, m.docx and o.docx.                                 *)

O_DOCX == <<"o", DOT, "docx">>
MPath == NormPath(PathJoin(WORD_FILES_PATH, M_DOCX))
OPath == NormPath(PathJoin(WORD_FILES_PATH, O_DOCX))

\* a.docx and m.docx when the server starts: missing, a document of one
\* paragraph, or a file the engine cannot load
InitDocFiles(text) == {FileOf(<<<<Para(text)>>>>), InvalidFile}

InitDoc ==
    /\ dirs = Ancestors(WordDir)
    /\ \E fa \in SUBSET {APath}, fm \in SUBSET {MPath} :
         \E a \in InitDocFiles("Hello"), m \in InitDocFiles("World") :
            disk = [n \in fa \cup fm |-> IF n = APath THEN a ELSE m]
    /\ last = NoCall
    /\ convCalls = <<>>

\* no document holds more than MaxSections sections
SectionsWithin(dk) == \A n \in DOMAIN dk : Len(dk[n].sections) <= MaxSections

\* a call of a document tool: the engine calls made are kept with it
DocCalled(tool, name, args, r) ==
    /\ SectionsWithin(r.disk)
    /\ disk' = r.disk
    /\ dirs' = r.dirs
    /\ last' = [tool |-> tool, name |-> name, args |-> args, out |-> r.out,
                before |-> disk, engine |-> r.engine]
    /\ UNCHANGED convCalls

ProtectionLevels == {"read_only", "none", "admin", "READ_ONLY"}
Colors == {"Red", "Blue", "red", "Nocolor"}

Doc_set_document_protection ==
    \E name \in {A_DOCX, M_DOCX}, protection_level \in ProtectionLevels :
        /\ DocCalled("set_document_protection", name, [protection_level |-> protection_level],
                     document_tools_set_document_protection(name, protection_level,
                                                            WORD_FILES_PATH, disk, dirs))

Doc_add_text_watermark ==
    \E name \in {A_DOCX, M_DOCX}, color \in Colors :
        /\ DocCalled("add_text_watermark", name, [text |-> "Hello", color |-> color],
                     document_tools_add_text_watermark(name, "Hello", color,
                                                       WORD_FILES_PATH, disk, dirs))

NextDoc ==
    \/ Doc_set_document_protection
    \/ Doc_add_text_watermark

SpecDoc == InitDoc /\ [][NextDoc]_vars

---------------------------------------------------------------------------
(* SpecMerge: merge_documents, called with the names a.docx, m.docx and    *)
(* o.docx.                                                                 *)

Merge_merge_documents ==
    \E original \in {A_DOCX, M_DOCX, O_DOCX}, merge \in {A_DOCX, M_DOCX, O_DOCX},
       output \in {A_DOCX, M_DOCX, O_DOCX} :
        /\ DocCalled("merge_documents", original, [merge |-> merge, output |-> output],
                     document_tools_merge_documents(original, merge, output,
                                                    WORD_FILES_PATH, disk, dirs))

NextMerge == Merge_merge_documents

SpecMerge == InitDoc /\ [][NextMerge]_vars

---------------------------------------------------------------------------
(* SpecOpen: tools that open an existing document, called on files with    *)
(* and without the permissions and the extension of a document.            *)

A_TXT == <<"a", DOT, "txt">>
OpenNames == {A_DOCX, A_TXT, <<>>}

\* a document of one paragraph, as it is, read-only, and unreadable, and a
\* file the engine cannot load
OpenFiles ==
    LET f == FileOf(<<<<Para("Hello")>>>>)
    IN  {f, [f EXCEPT !.w = FALSE], [f EXCEPT !.r = FALSE], InvalidFile}

InitOpen ==
    /\ dirs = Ancestors(WordDir)
    /\ \E names \in SUBSET {A_DOCX, A_TXT} : \E f \in OpenFiles :
          disk = [n \in {NormPath(PathJoin(WORD_FILES_PATH, name)) : name \in names} |-> f]
    /\ last = NoCall
    /\ convCalls = <<>>

Open_get_paragraph_text ==
    \E name \in OpenNames, p \in 0..1 :
        /\ Called("get_paragraph_text", name, [p |-> p, s |-> 0],
                  paragraph_tools_get_paragraph_text(name, p, 0, WORD_FILES_PATH, disk, dirs))

Open_update_paragraph_text ==
    \E name \in OpenNames, text \in Texts :
        /\ Called("update_paragraph_text", name, [p |-> 0, s |-> 0, text |-> text],
                  paragraph_tools_update_paragraph_text(name, 0, text, 0,
                                                        WORD_FILES_PATH, disk, dirs))

Open_convert_document ==
    \E name \in OpenNames, target_format \in TargetFormats :
        /\ Called("convert_document", name, [target_format |-> target_format],
                  conversion_tools_convert_document(name, target_format, 1,
                                                    WORD_FILES_PATH, disk, dirs))

NextOpen ==
    \/ Open_get_paragraph_text
    \/ Open_update_paragraph_text
    \/ Open_convert_document

SpecOpen == InitOpen /\ [][NextOpen]_vars

---------------------------------------------------------------------------
(* SpecHandler: one ConversionHandler, kept over its calls.  last.handler   *)
(* is the handler, last.earlier the handler before the last call, and       *)
(* convCalls holds the convert_document calls made on it.                   *)

\* the paths the handler is made with: a.docx, m.docx (no such file), none
HandlerPaths ==
    {PathJoin(WORD_FILES_PATH, A_DOCX), PathJoin(WORD_FILES_PATH, M_DOCX), <<>>}

InitHandler ==
    /\ dirs = Ancestors(WordDir)
    /\ \E f \in {FileOf(<<<<Para("Hello")>>>>), InvalidFile} : disk = [n \in {APath} |-> f]
    /\ convCalls = <<>>
    /\ \E doc_path \in HandlerPaths :
          last = [tool |-> "ConversionHandler", name |-> doc_path, args |-> <<>>,
                  out |-> Return(<<>>), before |-> disk,
                  handler |-> ConversionHandlerInit(doc_path),
                  earlier |-> ConversionHandlerInit(doc_path)]

Handler_convert_document ==
    \E target_format \in TargetFormats :
        LET r == ConversionHandler_convert_document(last.handler, target_format,
                                                    Len(convCalls) + 1, disk)
        IN  /\ Len(convCalls) < MaxConvCalls
            /\ disk' = r.disk
            /\ last' = [tool |-> "convert_document", name |-> last.name,
                        args |-> [target_format |-> target_format],
                        out |-> r.res, before |-> disk,
                        handler |-> r.handler, earlier |-> last.handler]
            /\ convCalls' = Append(convCalls, [target_format |-> target_format,
                                               raised |-> r.res.raised])
            /\ UNCHANGED dirs

Handler_get_conversion_status ==
    /\ last' = [tool |-> "get_conversion_status", name |-> last.name, args |-> <<>>,
                out |-> Return(ConversionHandler_get_conversion_status(last.handler)),
                before |-> disk, handler |-> last.handler, earlier |-> last.handler]
    /\ UNCHANGED <<disk, dirs, convCalls>>

Handler_get_conversion_history ==
    /\ last' = [tool |-> "get_conversion_history", name |-> last.name, args |-> <<>>,
                out |-> Return(ConversionHandler_get_conversion_history(last.handler)),
                before |-> disk, handler |-> last.handler, earlier |-> last.handler]
    /\ UNCHANGED <<disk, dirs, convCalls>>

NextHandler ==
    \/ Handler_convert_document
    \/ Handler_get_conversion_status
    \/ Handler_get_conversion_history

SpecHandler == InitHandler /\ [][NextHandler]_vars

---------------------------------------------------------------------------
(* SpecRelease: the engine document objects a tool call opens and closes.   *)
(* An event is the creation of a Document() or its Close()/Dispose().       *)

Opened(obj) == [op |-> "open", obj |-> obj]
Closed(obj) == [op |-> "close", obj |-> obj]

\* BaseHandler.__init__: a Document() is made once the path, the file, the
\* extension and the permissions have passed; when the load fails it is
\* closed and self.document is cleared
BaseHandlerEvents(path, dk) ==
    IF EngineLoad(path, dk) = <<>> THEN <<>>
    ELSE IF LoadDocument(path, dk).raised THEN <<Opened("handler"), Closed("handler")>>
    ELSE <<Opened("handler")>>

\* the document of the handler once __init__ is over: set, or None
DocumentAfterInit(path, dk) ==
    IF BaseHandlerInit(path, dk).raised THEN None ELSE Some("handler")

DelWithoutGuard(document) == <<Closed("handler")>>

\* BaseHandler.__del__: closes the document when the handler has one
BaseHandler_del(document) == IF IsNone(document) THEN <<>> ELSE <<Closed("handler")>>

\* a tool function of a BaseHandler: the handler is made, used and dropped
HandlerEvents(name, base, dk, ds) ==
    LET gp == get_doc_path(name, base, ds, dk)
        path == Val(gp.res.value)
    IN  IF gp.res.raised THEN <<>>
        ELSE BaseHandlerEvents(path, dk) \o BaseHandler_del(DocumentAfterInit(path, dk))

\* convert_document: doc = self._load_document() makes a Document() when the
\* format is supported and the path is set; nothing closes it, and
\* ConversionHandler has no __del__
ConversionEvents(name, target_format, base, dk, ds) ==
    LET gp == get_doc_path(name, base, ds, dk)
    IN  IF gp.res.raised \/ Lower(target_format) \notin SUPPORTED_FORMATS
           \/ Val(gp.res.value) = <<>>
        THEN <<>>
        ELSE <<Opened("converted")>>

\* merge_documents: merged_doc = Document() is made once the file to merge
\* exists, and merged_doc.Dispose() is reached when nothing has raised
MergeEvents(path, merge_path, success, dk, ds) ==
    LET merged == IF BaseHandlerInit(path, dk).raised \/ ~Exists(merge_path, ds, dk)
                  THEN <<>>
                  ELSE IF success THEN <<Opened("merged"), Closed("merged")>>
                  ELSE <<Opened("merged")>>
    IN  BaseHandlerEvents(path, dk) \o merged
        \o BaseHandler_del(DocumentAfterInit(path, dk))

\* create_document: DocumentHandler(doc_path, create_if_not_exists=True)
\* loads an existing file; create_document then sets self.document to a new
\* Document(), which __del__ closes
CreateEvents(name, base, dk, ds) ==
    LET gp == get_doc_path(name, base, ds, dk)
        path == Val(gp.res.value)
        h == DocumentHandlerInit(path, TRUE, dk)
    IN  IF gp.res.raised THEN <<>>
        ELSE IF ~IsFile(path, dk)
        THEN IF h.raised THEN <<>> ELSE <<Opened("created"), Closed("created")>>
        ELSE IF h.raised THEN BaseHandlerEvents(path, dk)
        ELSE BaseHandlerEvents(path, dk) \o <<Opened("created"), Closed("created")>>

\* a tool call with the events of its engine documents
Released(tool, name, args, r, events) ==
    /\ SectionsWithin(r.disk)
    /\ disk' = r.disk
    /\ dirs' = r.dirs
    /\ last' = [tool |-> tool, name |-> name, args |-> args, out |-> r.out,
                before |-> disk, events |-> events]
    /\ UNCHANGED convCalls

Release_update_paragraph_text ==
    \E name \in {A_DOCX, M_DOCX}, p \in 0..1, text \in {"World"} :
        /\ Released("update_paragraph_text", name, [p |-> p, s |-> 0, text |-> text],
                    paragraph_tools_update_paragraph_text(name, p, text, 0,
                                                          WORD_FILES_PATH, disk, dirs),
                    HandlerEvents(name, WORD_FILES_PATH, disk, dirs))

Release_convert_document ==
    \E name \in {A_DOCX}, target_format \in TargetFormats :
        /\ Released("convert_document", name, [target_format |-> target_format],
                    conversion_tools_convert_document(name, target_format, 1,
                                                      WORD_FILES_PATH, disk, dirs),
                    ConversionEvents(name, target_format, WORD_FILES_PATH, disk, dirs))

Release_merge_documents ==
    \E merge \in {A_DOCX, M_DOCX}, output \in {O_DOCX} :
        /\ Released("merge_documents", A_DOCX, [merge |-> merge, output |-> output],
                    document_tools_merge_documents(A_DOCX, merge, output,
                                                   WORD_FILES_PATH, disk, dirs),
                    MergeEvents(PathJoin(WORD_FILES_PATH, A_DOCX),
                                PathJoin(WORD_FILES_PATH, merge),
                                document_tools_merge_documents(A_DOCX, merge, output,
                                    WORD_FILES_PATH, disk, dirs).out.success,
                                disk, dirs))

Release_create_document ==
    \E name \in {A_DOCX, M_DOCX}, reload \in {<<<<NewParagraph>>>>} :
        /\ Released("create_document", name, [template |-> None],
                    document_tools_create_document(name, None, reload,
                                                   WORD_FILES_PATH, disk, dirs),
                    CreateEvents(name, WORD_FILES_PATH, disk, dirs))

NextRelease ==
    \/ Release_update_paragraph_text
    \/ Release_convert_document
    \/ Release_merge_documents
    \/ Release_create_document

SpecRelease == InitDoc /\ [][NextRelease]_vars

---------------------------------------------------------------------------
(* SpecCtor: the constructors of the handlers, each applied to one path.    *)

\* the handler classes and how they are constructed
HandlerKinds == {"BaseHandler", "DocumentHandler", "DocumentHandler(create_if_not_exists)",
                 "ConversionHandler"}

\* the files the constructors find: the files of SpecOpen and a document
\* without a section
CtorFiles == OpenFiles \cup {FileOf(NewDocument)}

\* what a constructor leaves: whether it returned, the document of the
\* handler (None, or the loaded sections), and the engine document events
Constructed(kind, path, dk) ==
    LET b == BaseHandlerInit(path, dk)
        d == DocumentHandlerInit(path, kind = "DocumentHandler(create_if_not_exists)", dk)
    IN  IF kind = "ConversionHandler"
        THEN [returned |-> TRUE, document |-> None, events |-> <<>>]
        ELSE IF kind = "BaseHandler"
        THEN [returned |-> ~b.raised,
              document |-> IF b.raised THEN None ELSE b.value,
              events |-> BaseHandlerEvents(path, dk)]
        ELSE [returned |-> ~d.raised,
              document |-> IF d.raised THEN None ELSE Val(d.value),
              events |-> IF kind = "DocumentHandler(create_if_not_exists)" /\ ~IsFile(path, dk)
                         THEN <<>> ELSE BaseHandlerEvents(path, dk)]

InitCtor ==
    /\ dirs = Ancestors(WordDir)
    /\ \E names \in SUBSET {A_DOCX, A_TXT} : \E f \in CtorFiles :
          disk = [n \in {NormPath(PathJoin(WORD_FILES_PATH, name)) : name \in names} |-> f]
    /\ convCalls = <<>>
    /\ \E kind \in HandlerKinds, path \in {PathJoin(WORD_FILES_PATH, A_DOCX),
                                          PathJoin(WORD_FILES_PATH, A_TXT), <<>>} :
          last = [tool |-> "input", name |-> path, args |-> [kind |-> kind],
                  out |-> [outcome |-> "none"], before |-> disk]

Ctor_construct ==
    /\ last.tool = "input"
    /\ last' = [last EXCEPT !.tool = "constructed",
                            !.out = Constructed(last.args.kind, last.name, disk)]
    /\ UNCHANGED <<disk, dirs, convCalls>>

NextCtor == Ctor_construct

SpecCtor == InitCtor /\ [][NextCtor]_vars

---------------------------------------------------------------------------
(* server.py and __main__.py: calls in flight.  A server is one process   *)
(* with one event loop; every tool is a coroutine of that loop.  Servers  *)
(* started on the same directory share the files and nothing else.        *)

MaxCalls == 3

Calls == 1..MaxCalls

\* the server a call arrives at: the first call at server 2, the others at server 1
ServerOf(c) == IF c = 1 THEN 2 ELSE 1

CallTexts == <<"One", "Two", "Three", "Four">>

TextOf(c) == CallTexts[c]

AwaitAfterLoad == {"loaded"}

\* the positions of a tool body at which the coroutine hands the event loop
\* back: the tool function and the handler methods hold no await
AwaitPoints == {}

\* the event loop runs call c when every other call of its server has not
\* started, has returned, or is suspended at an await
Scheduled(c, pcs) ==
    \A d \in Calls \ {c} :
        ServerOf(d) = ServerOf(c) => pcs[d] \in {"pending", "done"} \cup AwaitPoints

\* section.AddParagraph(); paragraph.Text = text: the handler's copy after the change
InMemory(doc, path, text) ==
    LET m == ParagraphHandler_add_paragraph(doc, path, text, 0, None, NoFiles)
    IN  [res |-> m.res,
         doc |-> IF m.res.raised THEN doc ELSE m.disk[NormPath(path)].sections]

SaveUnlessChanged(dk, path, loaded, doc) ==
    IF NormPath(path) \in DOMAIN dk /\ dk[NormPath(path)].sections = loaded
    THEN SaveToFile(dk, path, doc) ELSE dk

\* self.document.SaveToFile(self.doc_path): the handler's copy is written
\* whatever the file holds by now; the copy that was loaded is not compared
SaveStep(dk, path, loaded, doc) == SaveToFile(dk, path, doc)

NoOut == [outcome |-> "none"]

Pending == [pc |-> "pending", path |-> <<>>, loaded |-> <<>>, doc |-> <<>>, out |-> NoOut]

InitServers ==
    /\ dirs = Ancestors(WordDir)
    /\ \/ disk = NoFiles
       \/ \E f \in {FileOf(<<<<Para("Hello")>>>>), FileOf(<<<<>>>>), InvalidFile} :
            disk = [n \in {APath} |-> f]
    /\ last = [c \in Calls |-> Pending]
    /\ convCalls = <<>>

Step(c, step) == convCalls' = Append(convCalls, [call |-> c, step |-> step])

AddParagraphEnvelope(res) ==
    Envelope("ParagraphError", "PARAGRAPH_ADD_ERROR",
             "Please check if the section index and paragraph index are valid.", res)

\* doc_path = get_doc_path(...); handler = ParagraphHandler(doc_path)
Srv_load(c) ==
    /\ last[c].pc = "pending"
    /\ Scheduled(c, [d \in Calls |-> last[d].pc])
    /\ LET h == OpenHandler(A_DOCX, WORD_FILES_PATH, disk, dirs)
       IN  /\ dirs' = h.dirs
           /\ disk' = disk
           /\ last' = [last EXCEPT ![c] =
                         IF h.res.raised
                         THEN [Pending EXCEPT !.pc = "done", !.out = AddParagraphEnvelope(h.res)]
                         ELSE [Pending EXCEPT !.pc = "loaded", !.path = h.path,
                                              !.loaded = HandlerDocument(h),
                                              !.doc = HandlerDocument(h)]]
    /\ Step(c, "load")

\* handler.add_paragraph up to its save
Srv_mutate(c) ==
    /\ last[c].pc = "loaded"
    /\ Scheduled(c, [d \in Calls |-> last[d].pc])
    /\ LET m == InMemory(last[c].doc, last[c].path, TextOf(c))
       IN  last' = [last EXCEPT ![c] =
                      IF m.res.raised
                      THEN [@ EXCEPT !.pc = "done", !.out = AddParagraphEnvelope(m.res)]
                      ELSE [@ EXCEPT !.pc = "mutated", !.doc = m.doc,
                                     !.out = AddParagraphEnvelope(m.res)]]
    /\ Step(c, "mutate")
    /\ UNCHANGED <<disk, dirs>>

\* the save of handler.add_paragraph and the return of the tool
Srv_save(c) ==
    /\ last[c].pc = "mutated"
    /\ Scheduled(c, [d \in Calls |-> last[d].pc])
    /\ disk' = SaveStep(disk, last[c].path, last[c].loaded, last[c].doc)
    /\ last' = [last EXCEPT ![c].pc = "done"]
    /\ Step(c, "save")
    /\ UNCHANGED dirs

NextServers ==
    \/ \E c \in Calls : Srv_load(c)
    \/ \E c \in Calls : Srv_mutate(c)
    \/ \E c \in Calls : Srv_save(c)

SpecServers == InitServers /\ [][NextServers]_vars

---------------------------------------------------------------------------
(* SpecAtomic: every tool that changes a document, called on a.docx with   *)
(* arguments that pass and arguments that fail.  TableHandler.delete_table *)
(* and DocumentHandler.find_and_replace with their tools come first.       *)

\* section.Tables.RemoveAt(i)
TablesRemoveAt(body, i) == RemoveAtPos(body, TablePos(body)[i + 1])

DeleteThenLookUp(doc, path, t, s, dk) ==
    IF s < 0 \/ s >= Len(doc) \/ t < 0 \/ t >= TableCount(doc[s + 1])
    THEN TableHandler_get_table_info(doc, path, t, s, dk)
    ELSE LET doc2 == [doc EXCEPT ![s + 1] = TablesRemoveAt(doc[s + 1], t)]
             info == TableHandler_get_table_info(doc2, path, t, s, dk).res
         IN  [res |-> info, disk |-> SaveToFile(dk, path, doc2)]

\* TableHandler.delete_table: the table is looked up, removed, and the
\* document saved
TableHandler_delete_table(doc, path, t, s, dk) ==
    LET info == TableHandler_get_table_info(doc, path, t, s, dk).res
    IN  IF info.raised THEN [res |-> info, disk |-> dk]
        ELSE LET doc2 == [doc EXCEPT ![s + 1] = TablesRemoveAt(doc[s + 1], t)]
             IN  [res |-> Return([section_index |-> s, table_index |-> t,
                                  deleted_dimensions |-> [rows |-> Val(info.value).rows,
                                                          columns |-> Val(info.value).columns],
                                  total_tables_remaining |-> TableCount(doc2[s + 1])]),
                  disk |-> SaveToFile(dk, path, doc2)]

table_tools_delete_table(name, t, s, base, dk, ds) ==
    LET h == OpenHandler(name, base, dk, ds)
    IN  Tool("TableError", "TABLE_DELETE_ERROR",
         "Please check if the table index and section index are valid.",
             Invoke(h, TableHandler_delete_table(HandlerDocument(h), h.path, t, s, dk)))

\* document.Replace(find_text, replace_text, match_case, match_whole_word):
\* a text of the model is one word; it is replaced when it is the word
\* sought, compared as written or, without match_case, in lower case
ReplaceIn(t, find_text, replace_text, match_case) ==
    IF (match_case /\ t = find_text) \/ (~match_case /\ Lower(t) = Lower(find_text))
    THEN replace_text ELSE t

Replace(sections, find_text, replace_text, match_case) ==
    [i \in DOMAIN sections |->
        [k \in DOMAIN sections[i] |->
            LET item == sections[i][k]
            IN  IF item.kind = "para"
                THEN [item EXCEPT !.text = ReplaceIn(@, find_text, replace_text, match_case)]
                ELSE [item EXCEPT !.cells =
                        [r \in DOMAIN @ |-> [c \in DOMAIN @[r] |->
                            [q \in DOMAIN @[r][c] |->
                                ReplaceIn(@[r][c][q], find_text, replace_text, match_case)]]]]]]

\* DocumentHandler.find_and_replace
DocumentHandler_find_and_replace(doc, path, find_text, replace_text, match_case, dk) ==
    IF IsNone(doc) \/ find_text = ""
    THEN [res |-> Raise("DocumentError", "Failed to replace text"), disk |-> dk,
          engine |-> <<>>]
    ELSE [res |-> Return([success |-> TRUE, replacements |-> 1,
                          search_params |-> [find_text |-> find_text,
                                             replace_text |-> replace_text,
                                             match_case |-> match_case]]),
          disk |-> SaveDocument(dk, path,
                                Replace(Val(doc), find_text, replace_text, match_case),
                                dk[NormPath(path)].protection, dk[NormPath(path)].watermark),
          engine |-> <<"Replace", "SaveToFile">>]

document_tools_find_and_replace(name, find_text, replace_text, match_case, base, dk, ds) ==
    LET gp == get_doc_path(name, base, ds, dk)
        h == DocumentHandlerInit(Val(gp.res.value), FALSE, dk)
    IN  DocumentTool("DOC_REPLACE_ERROR",
            "Please check if the document exists and the search parameters are valid.",
            gp, h,
            DocumentHandler_find_and_replace(Val(h.value), Val(gp.res.value), find_text,
                                             replace_text, match_case, dk),
            dk, ds)

\* a.docx is not there, cannot be loaded, or holds a paragraph and a table
InitAtomic ==
    /\ dirs = Ancestors(WordDir)
    /\ \/ disk = NoFiles
       \/ \E f \in {InvalidFile, FileOf(<<<<Para("Hello"), NewTable(1, 1)>>>>)} :
            disk = [n \in {APath} |-> f]
    /\ last = NoCall
    /\ convCalls = <<>>

MaxAtomicBody == 2

\* a call of a tool on a.docx; no document holds more than MaxAtomicBody
\* paragraphs and tables
Changed(tool, args, r) ==
    /\ \A n \in DOMAIN r.disk : SumLen(r.disk[n].sections) <= MaxAtomicBody
    /\ disk' = r.disk
    /\ dirs' = r.dirs
    /\ last' = [tool |-> tool, name |-> A_DOCX, args |-> args, out |-> r.out, before |-> disk]
    /\ UNCHANGED convCalls

AtomicIndices == -1..1

Atomic_add_paragraph ==
    \E s \in SectionIndices, pidx \in {None, Some(-1), Some(0)} :
        /\ Changed("add_paragraph", [text |-> "World", s |-> s, pidx |-> pidx],
                   paragraph_tools_add_paragraph(A_DOCX, "World", s, pidx,
                                                 WORD_FILES_PATH, disk, dirs))

Atomic_update_paragraph_text ==
    \E p \in AtomicIndices, s \in SectionIndices :
        /\ Changed("update_paragraph_text", [p |-> p, text |-> "World", s |-> s],
                   paragraph_tools_update_paragraph_text(A_DOCX, p, "World", s,
                                                         WORD_FILES_PATH, disk, dirs))

Atomic_delete_paragraph ==
    \E p \in AtomicIndices, s \in SectionIndices :
        /\ Changed("delete_paragraph", [p |-> p, s |-> s],
                   paragraph_tools_delete_paragraph(A_DOCX, p, s, WORD_FILES_PATH, disk, dirs))

AtomicFormats ==
    {[NoArgs EXCEPT !.alignment = Some("center")],
     [NoArgs EXCEPT !.alignment = Some("center"), !.left_indent = Some(-1)],
     [NoArgs EXCEPT !.alignment = Some("center"), !.line_spacing = Some(18),
                    !.line_spacing_rule = Some("bogus")],
     [NoArgs EXCEPT !.alignment = Some("middle")]}

Atomic_format_paragraph ==
    \E p \in AtomicIndices, a \in AtomicFormats :
        /\ p = 0 \/ a = [NoArgs EXCEPT !.alignment = Some("center")]
        /\ Changed("format_paragraph", [p |-> p, a |-> a],
                   format_tools_format_paragraph(A_DOCX, p, a, WORD_FILES_PATH, disk, dirs))

Atomic_create_table ==
    \E d \in {<<1, 1>>, <<0, 1>>, <<1, 101>>}, s \in SectionIndices, pidx \in {None, Some(0)} :
        /\ d = <<1, 1>> \/ s = 0
        /\ Changed("create_table", [rows |-> d[1], columns |-> d[2], s |-> s, pidx |-> pidx],
                   table_tools_create_table(A_DOCX, d[1], d[2], s, pidx,
                                            WORD_FILES_PATH, disk, dirs))

Atomic_delete_table ==
    \E t \in AtomicIndices, s \in SectionIndices :
        /\ Changed("delete_table", [t |-> t, s |-> s],
                   table_tools_delete_table(A_DOCX, t, s, WORD_FILES_PATH, disk, dirs))

Atomic_set_cell_text ==
    \E t \in AtomicIndices, row \in AtomicIndices, column \in AtomicIndices :
        /\ t = 0 \/ (row = 0 /\ column = 0)
        /\ Changed("set_cell_text", [t |-> t, row |-> row, column |-> column,
                                     text |-> "World", s |-> 0],
                   table_tools_set_cell_text(A_DOCX, t, row, column, "World", 0,
                                             WORD_FILES_PATH, disk, dirs))

Atomic_set_document_protection ==
    \E protection_level \in {"read_only", "admin"} :
        /\ Changed("set_document_protection", [protection_level |-> protection_level],
                   document_tools_set_document_protection(A_DOCX, protection_level,
                                                          WORD_FILES_PATH, disk, dirs))

Atomic_find_and_replace ==
    \E find_text \in {"", "Hello"}, match_case \in BOOLEAN :
        /\ Changed("find_and_replace", [find_text |-> find_text, replace_text |-> "World",
                                        match_case |-> match_case],
                   document_tools_find_and_replace(A_DOCX, find_text, "World", match_case,
                                                   WORD_FILES_PATH, disk, dirs))

Atomic_add_text_watermark ==
    \E color \in {"Blue", "Nocolor"} :
        /\ Changed("add_text_watermark", [text |-> "Hello", color |-> color],
                   document_tools_add_text_watermark(A_DOCX, "Hello", color,
                                                     WORD_FILES_PATH, disk, dirs))

NextAtomic ==
    \/ Atomic_add_paragraph
    \/ Atomic_update_paragraph_text
    \/ Atomic_delete_paragraph
    \/ Atomic_format_paragraph
    \/ Atomic_create_table
    \/ Atomic_delete_table
    \/ Atomic_set_cell_text
    \/ Atomic_set_document_protection
    \/ Atomic_find_and_replace
    \/ Atomic_add_text_watermark

SpecAtomic == InitAtomic /\ [][NextAtomic]_vars

---------------------------------------------------------------------------
(* SpecTeardown: BaseHandler.__del__, run again and again on a handler     *)
(* whose constructor has returned or raised.                               *)

MaxRuns == 3

\* whether __init__ got as far as self.document = None
HasDocumentAttr(kind, path, dk) ==
    IF kind = "DocumentHandler(create_if_not_exists)" /\ ~IsFile(path, dk)
    THEN path # <<>> /\ HasDocExt(path)
    ELSE path # <<>> /\ IsFile(path, dk) /\ HasDocExt(path)

\* try: self.document.Close() / except: pass: the bare except takes whatever
\* Close raises
BareExcept(raised) == FALSE

\* whether __del__ raises: close_raises is whether the engine's Close does
BaseHandler_del_raises(document, close_raises) ==
    IF IsNone(document) THEN FALSE ELSE BareExcept(close_raises)

InitTeardown ==
    /\ dirs = Ancestors(WordDir)
    /\ \E names \in SUBSET {A_DOCX, A_TXT} : \E f \in CtorFiles :
          disk = [n \in {NormPath(PathJoin(WORD_FILES_PATH, name)) : name \in names} |-> f]
    /\ convCalls = <<>>
    /\ \E kind \in {"BaseHandler", "DocumentHandler(create_if_not_exists)"},
          path \in {PathJoin(WORD_FILES_PATH, A_DOCX), PathJoin(WORD_FILES_PATH, A_TXT), <<>>} :
          last = [tool |-> "constructed", name |-> path, args |-> [kind |-> kind],
                  out |-> Constructed(kind, path, disk), before |-> disk,
                  attr |-> HasDocumentAttr(kind, path, disk),
                  runs |-> 0, raised |-> FALSE, closes |-> <<>>, events |-> <<>>]

\* self.document as __del__ finds it: hasattr(self, 'document') and self.document
DocumentOf(h) == IF h.attr /\ ~IsNone(h.out.document) THEN Some("handler") ELSE None

\* one run of __del__; the engine's Close of a document raises or returns
Teardown_del ==
    /\ last.runs < MaxRuns
    /\ \E close_raises \in BOOLEAN :
         last' = [last EXCEPT !.tool = "torn down",
                              !.runs = @ + 1,
                              !.raised = BaseHandler_del_raises(DocumentOf(last), close_raises),
                              !.closes = Append(@, close_raises),
                              !.events = BaseHandler_del(DocumentOf(last))]
    /\ UNCHANGED <<disk, dirs, convCalls>>

NextTeardown == Teardown_del

SpecTeardown == InitTeardown /\ [][NextTeardown]_vars

---------------------------------------------------------------------------
(* SpecIndex: create_table and get_table_info on a.docx, whose section     *)
(* holds a paragraph and up to two tables when the server starts.          *)

MaxIndexBody == 4

IndexBodies ==
    {<<Para("Hello")>>, <<Para("Hello"), NewTable(1, 1)>>,
     <<NewTable(1, 1), Para("Hello")>>,
     <<Para("Hello"), NewTable(1, 1), NewTable(1, 1)>>}

InitIndex ==
    /\ dirs = Ancestors(WordDir)
    /\ \E body \in IndexBodies : disk = [n \in {APath} |-> FileOf(<<body>>)]
    /\ last = NoCall
    /\ convCalls = <<>>

IndexCalled(tool, args, r) ==
    /\ \A n \in DOMAIN r.disk : SumLen(r.disk[n].sections) <= MaxIndexBody
    /\ disk' = r.disk
    /\ dirs' = r.dirs
    /\ last' = [tool |-> tool, name |-> A_DOCX, args |-> args, out |-> r.out, before |-> disk]
    /\ UNCHANGED convCalls

Index_create_table ==
    \E d \in {<<2, 2>>, <<1, 2>>, <<0, 1>>}, pidx \in {None, Some(0), Some(1)} :
        /\ IndexCalled("create_table", [rows |-> d[1], columns |-> d[2], s |-> 0, pidx |-> pidx],
                       table_tools_create_table(A_DOCX, d[1], d[2], 0, pidx,
                                                WORD_FILES_PATH, disk, dirs))

Index_get_table_info ==
    \E t \in -1..2 :
        /\ IndexCalled("get_table_info", [t |-> t, s |-> 0],
                       table_tools_get_table_info(A_DOCX, t, 0, WORD_FILES_PATH, disk, dirs))

NextIndex ==
    \/ Index_create_table
    \/ Index_get_table_info

SpecIndex == InitIndex /\ [][NextIndex]_vars

---------------------------------------------------------------------------
(* SpecOutput: convert_document called on a.docx with and without an       *)
(* output_path.                                                            *)

O_PDF == <<"o", DOT, "pdf">>

\* the output paths of the calls: none, the path of the document itself, a
\* path in the directory of the documents with and without an extension, a
\* path in a directory that is not there
OutputPaths ==
    {None, Some(PathJoin(WORD_FILES_PATH, A_DOCX)), Some(PathJoin(WORD_FILES_PATH, O_PDF)),
     Some(PathJoin(WORD_FILES_PATH, <<"o">>)), Some(<<"out", SEP, "o", DOT, "pdf">>)}

OutputFormats == {"pdf", "DOCX", "xyz"}

InitOutput ==
    /\ dirs = Ancestors(WordDir)
    /\ \E f \in {FileOf(<<<<Para("Hello")>>>>), InvalidFile} : disk = [n \in {APath} |-> f]
    /\ last = NoCall
    /\ convCalls = <<>>

Output_convert_document ==
    \E target_format \in OutputFormats, output_path \in OutputPaths :
        LET r == conversion_tools_convert_to(A_DOCX, target_format, output_path, 0,
                                             WORD_FILES_PATH, disk, dirs)
        IN  /\ disk' = r.disk
            /\ dirs' = r.dirs
            /\ last' = [tool |-> "convert_document", name |-> A_DOCX,
                        args |-> [target_format |-> target_format, output_path |-> output_path],
                        out |-> r.out, before |-> disk]
            /\ UNCHANGED convCalls

NextOutput == Output_convert_document

SpecOutput == InitOutput /\ [][NextOutput]_vars

---------------------------------------------------------------------------
(* SpecNew: create_document, called with and without a template on the     *)
(* files a.docx and m.docx.                                                *)

\* the templates of the calls: none, m.docx, a.docx itself
Templates == {None, Some(PathJoin(WORD_FILES_PATH, M_DOCX)), Some(PathJoin(WORD_FILES_PATH, A_DOCX))}

New_create_document ==
    \E name \in {A_DOCX, A_TXT}, template \in Templates, reload \in EmptyReloads :
        /\ Released("create_document", name, [template |-> template, reload |-> reload],
                    document_tools_create_document(name, template, reload,
                                                   WORD_FILES_PATH, disk, dirs),
                    CreateEvents(name, WORD_FILES_PATH, disk, dirs))

NextNew == New_create_document

SpecNew == InitDoc /\ [][NextNew]_vars

---------------------------------------------------------------------------
(* What the claims speak of.                                               *)

Succeeded == last.out.outcome = "success"
Failed == last.out.outcome = "failure"
Data == Val(last.out.data)

\* the document a.docx held before the last call, and holds now
HadA == APath \in DOMAIN last.before
DocBefore == last.before[APath].sections
DocNow == disk[APath].sections

\* the last call reached a method of a handler of a.docx with a valid section
OnSection ==
    /\ last.name = A_DOCX
    /\ HadA /\ last.before[APath].valid /\ last.args.s < Len(DocBefore)

\* what the tool get_paragraph_text gives now
TextNow(p, s) == paragraph_tools_get_paragraph_text(A_DOCX, p, s, WORD_FILES_PATH, disk, dirs).out

ReadsText(p, s, t) ==
    TextNow(p, s).outcome = "success" /\ Val(TextNow(p, s).data).text = t

ReadFailsIndex(p, s) ==
    /\ TextNow(p, s).outcome = "failure"
    /\ Val(TextNow(p, s).error).type = "ParagraphError"
    /\ Val(TextNow(p, s).error).details = "Paragraph index out of range"

---------------------------------------------------------------------------
(* The claims.                                                             *)

\* C1: every failure of a tool operation is returned as an envelope with
\* success = false and an error record of code, type, details and suggestion;
\* no exception leaves the api-layer function.
C1_FailuresAreEnvelopes ==
    last.tool # "none" =>
        /\ last.out.outcome \in {"success", "failure"}
        /\ last.out.outcome = "failure" =>
               /\ ~last.out.success
               /\ DOMAIN Val(last.out.error) = {"code", "type", "details", "suggestion"}

\* the name has a component ".." that a separator follows
HasUpComponent(name) ==
    \E i \in 1..(Len(name) - 2) :
        /\ name[i] = DOT /\ name[i + 1] = DOT /\ name[i + 2] = SEP
        /\ i = 1 \/ name[i - 1] = SEP

\* the path is base_dir or lies below it
IsPrefix(s, t) == Len(s) <= Len(t) /\ SubSeq(t, 1, Len(s)) = s

InsideBase(path, base) ==
    /\ NormPath(path).abs = NormPath(base).abs
    /\ IsPrefix(NormPath(base).comps, NormPath(path).comps)

\* C2: get_doc_path fails with the invalid-path error for every name that has
\* a "../" component or an absolute prefix, and no path it returns lies
\* outside base_dir.
C2_PathContainment ==
    last.tool = "get_doc_path" =>
        /\ (HasUpComponent(last.name) \/ IsAbs(last.name)) =>
               /\ last.out.res.raised
               /\ last.out.res.cls = "DocumentError"
               /\ last.out.res.msg = "Invalid document path"
        /\ ~last.out.res.raised => InsideBase(Val(last.out.res.value), last.args.base)

\* the record of the history the k-th convert_document call stands for
Attempt(k) ==
    [target_format |-> Lower(convCalls[k].target_format),
     status |-> IF convCalls[k].out.outcome = "success" THEN "success" ELSE "failed"]

Brief(rec) == [target_format |-> rec.target_format, status |-> rec.status]

\* C3: after two convert_document calls on a.docx, one of which failed,
\* get_conversion_history returns exactly 2 records, the failed one with
\* status failed and a non-empty error, and get_conversion_status returns
\* the record of the second call.
C3_ConversionHistory ==
    (/\ Len(convCalls) = 2
     /\ Cardinality({k \in 1..2 : convCalls[k].out.outcome # "success"}) = 1) =>
        LET h == conversion_tools_get_conversion_history(A_DOCX, WORD_FILES_PATH, disk, dirs).out
            st == conversion_tools_get_conversion_status(A_DOCX, WORD_FILES_PATH, disk, dirs).out
        IN  /\ h.outcome = "success"
            /\ Val(h.data).total_conversions = 2
            /\ Len(Val(h.data).history) = 2
            /\ \A k \in 1..2 :
                   /\ Brief(Val(h.data).history[k]) = Attempt(k)
                   /\ Attempt(k).status = "failed" => Val(h.data).history[k].error # ""
            /\ st.outcome = "success"
            /\ ~IsNone(Val(st.data))
            /\ Brief(Val(Val(st.data))) = Attempt(2)

\* C4: from create_document("a.docx") in a directory without a.docx, adding
\* "Hello" at the default position and then "World" at index 0 succeeds at
\* every step, and then paragraph 0 reads "World" and paragraph 1 reads "Hello".
C4_Scenario ==
    (last.tool = "create_document" /\ last.name = A_DOCX /\ ~HadA) =>
        LET a1 == paragraph_tools_add_paragraph(A_DOCX, "Hello", 0, None,
                                                WORD_FILES_PATH, disk, dirs)
            a2 == paragraph_tools_add_paragraph(A_DOCX, "World", 0, Some(0),
                                                WORD_FILES_PATH, a1.disk, a1.dirs)
            g0 == paragraph_tools_get_paragraph_text(A_DOCX, 0, 0,
                                                WORD_FILES_PATH, a2.disk, a2.dirs).out
            g1 == paragraph_tools_get_paragraph_text(A_DOCX, 1, 0,
                                                WORD_FILES_PATH, a2.disk, a2.dirs).out
        IN  /\ Succeeded
            /\ a1.out.outcome = "success"
            /\ a2.out.outcome = "success"
            /\ g0.outcome = "success" /\ Val(g0.data).text = "World"
            /\ g1.outcome = "success" /\ Val(g1.data).text = "Hello"

\* C5: add_paragraph on a section with n paragraphs accepts a given index
\* exactly when 0 <= index <= n; on success the section has n + 1 paragraphs,
\* the new text is read at the returned index (the given index, or n when
\* appended), and the former paragraphs keep their order.
C5_AddParagraph ==
    (last.tool = "add_paragraph" /\ OnSection) =>
        LET s == last.args.s
            n == ParaCount(DocBefore[s + 1])
            pidx == last.args.pidx
        IN  /\ ~IsNone(pidx) => (Succeeded <=> (0 <= Val(pidx) /\ Val(pidx) <= n))
            /\ IsNone(pidx) => Succeeded
            /\ Succeeded =>
                   /\ ParaCount(DocNow[s + 1]) = n + 1
                   /\ Data.paragraph_index = (IF IsNone(pidx) THEN n ELSE Val(pidx))
                   /\ ReadsText(Data.paragraph_index, s, last.args.text)
                   /\ RemoveAtPos(ParaTexts(DocNow[s + 1]), Data.paragraph_index + 1)
                          = ParaTexts(DocBefore[s + 1])

\* C5 witness: a paragraph was inserted before the last of at least two
C5_Witness ==
    /\ last.tool = "add_paragraph" /\ OnSection /\ Succeeded
    /\ ~IsNone(last.args.pidx)
    /\ ParaCount(DocBefore[last.args.s + 1]) >= 2
    /\ Val(last.args.pidx) < ParaCount(DocBefore[last.args.s + 1])

\* C6: a successful delete_paragraph(i) returns the text that was at i, and
\* then get_paragraph_text(i) gives the text that was at i + 1, or fails with
\* the index error when i was the last index.
C6_DeleteParagraph ==
    (last.tool = "delete_paragraph" /\ Succeeded) =>
        LET s == last.args.s
            i == last.args.p
            before == ParaTexts(DocBefore[s + 1])
        IN  /\ Data.deleted_text = before[i + 1]
            /\ IF i + 1 < Len(before) THEN ReadsText(i, s, before[i + 2])
               ELSE ReadFailsIndex(i, s)

\* C6 witness: a paragraph that had a different one after it was deleted
C6_Witness ==
    /\ last.tool = "delete_paragraph" /\ Succeeded
    /\ LET before == ParaTexts(DocBefore[last.args.s + 1])
       IN  /\ last.args.p + 1 < Len(before)
           /\ before[last.args.p + 1] # before[last.args.p + 2]

\* what format_paragraph was called with, and the paragraph it was called on
FormatArgs == last.args.a
Supplied(f) == ~IsNone(FormatArgs[f])

\* the value the engine holds for what was supplied for field f
Wanted(f) ==
    CASE f = "alignment" -> AlignmentMap(Lower(Val(FormatArgs[f])))
      [] f = "line_spacing_rule" -> RuleMap(Lower(Val(FormatArgs[f])))
      [] OTHER -> FormatArgs[f]

InvalidField(f) ==
    /\ Supplied(f)
    /\ IF f \in {"alignment", "line_spacing_rule"} THEN IsNone(Wanted(f))
       ELSE Val(FormatArgs[f]) < 0

\* the format tools were given a.docx with the paragraph of the index there
OnParagraph ==
    /\ last.name = A_DOCX /\ HadA /\ last.before[APath].valid
    /\ Len(DocBefore) > 0 /\ last.args.p < ParaCount(DocBefore[1])

FmtBefore == ParaAt(DocBefore[1], last.args.p).fmt
FmtNow == ParaAt(DocNow[1], last.args.p).fmt

\* what the tool get_paragraph_format gives on a disk
FormatReport(dk) ==
    format_tools_get_paragraph_format(last.name, last.args.p, WORD_FILES_PATH, dk, dirs).out

\* C7: a format_paragraph call with an invalid supplied field fails and
\* changes no formatting field: get_paragraph_format reports after the call
\* what it reported before it.
C7_ValidateBeforeMutate ==
    (last.tool = "format_paragraph" /\ \E f \in FormatFields : InvalidField(f)) =>
        /\ Failed
        /\ FormatReport(disk) = FormatReport(last.before)

\* C7 witness: a valid alignment that would change the paragraph was supplied
\* beside a negative left_indent
C7_Witness ==
    /\ last.tool = "format_paragraph" /\ OnParagraph
    /\ FormatArgs.alignment = Some("center") /\ FmtBefore.alignment = "Left"
    /\ FormatArgs.left_indent = Some(-1)
    /\ FormatReport(disk).outcome = "success"

\* C8: a successful format_paragraph applies every supplied field, keeps
\* every omitted field, and its changes map is true for a field exactly when
\* the field was supplied and the paragraph holds the supplied value.
C8_ExactlySupplied ==
    (last.tool = "format_paragraph" /\ Succeeded) =>
        \A f \in FormatFields :
            /\ Supplied(f) => FmtNow[f] = Val(Wanted(f))
            /\ ~Supplied(f) => FmtNow[f] = FmtBefore[f]
            /\ Data.changes_applied[f] <=> Supplied(f)

\* C9: after a successful format_paragraph with alignment "center",
\* get_paragraph_format reports the alignment "center".
C9_AlignmentRoundTrip ==
    (last.tool = "format_paragraph" /\ Succeeded /\ FormatArgs.alignment = Some("center")) =>
        /\ FormatReport(disk).outcome = "success"
        /\ Val(FormatReport(disk).data).formatting.alignment = "center"

\* C10: a mutation tool that returns success has saved: the next tool call,
\* which loads the file anew, observes the mutation.
C10_Persisted ==
    Succeeded =>
        /\ last.tool = "update_paragraph_text" =>
               ReadsText(last.args.p, last.args.s, last.args.text)
        /\ last.tool = "add_paragraph" =>
               ReadsText(Data.paragraph_index, last.args.s, last.args.text)
        /\ last.tool = "delete_paragraph" =>
               ReadFailsIndex(ParaCount(DocBefore[last.args.s + 1]) - 1, last.args.s)
        /\ last.tool = "set_cell_text" =>
               LET again == table_tools_set_cell_text(A_DOCX, last.args.t, last.args.row,
                                last.args.column, last.args.text, last.args.s,
                                WORD_FILES_PATH, disk, dirs).out
               IN  again.outcome = "success"
                   /\ Val(again.data).original_text = last.args.text

\* C10 witness: an update changed the text of a paragraph
C10_Witness ==
    /\ last.tool = "update_paragraph_text" /\ Succeeded
    /\ Data.original_text # last.args.text

\* the table tools were given a.docx with the table of the index there
OnTable ==
    /\ last.name = A_DOCX /\ HadA /\ last.before[APath].valid
    /\ last.args.s < Len(DocBefore)
    /\ 0 <= last.args.t /\ last.args.t < TableCount(DocBefore[last.args.s + 1])

CellsBefore == TableAt(DocBefore[last.args.s + 1], last.args.t).cells
CellsNow == TableAt(DocNow[last.args.s + 1], last.args.t).cells

\* the row and the column are inside the rows and the columns of row 0
InsideTable ==
    /\ 0 <= last.args.row /\ last.args.row < Len(CellsBefore)
    /\ 0 <= last.args.column /\ last.args.column < Len(CellsBefore[1])

\* the row of the call has a cell at the column of the call
CellThere == last.args.column < Len(CellsBefore[last.args.row + 1])

IndexErrorReturned ==
    /\ Failed
    /\ Val(last.out.error).details \in {"Invalid row index", "Invalid column index"}

\* the cell of the call holds the text in its first paragraph, a cell that
\* had no paragraph holds one, and the rest of the document is as it was
CellWasSet ==
    LET before == CellsBefore[last.args.row + 1][last.args.column + 1]
        now == CellsNow[last.args.row + 1][last.args.column + 1]
    IN  /\ Succeeded
        /\ now # <<>> /\ now[1] = last.args.text
        /\ Len(now) = (IF before = <<>> THEN 1 ELSE Len(before))
        /\ \A k \in 2..Len(now) : now[k] = before[k]
        /\ Data.original_text = (IF before = <<>> THEN "" ELSE before[1])

\* C11 as stated: set_cell_text outside the rows, or outside the columns of
\* row 0, fails with an index error and leaves the file as it was; inside
\* them it sets the text of the first paragraph of the cell, creating it
\* when the cell has none.
C11_SetCellTextAsStated ==
    (last.tool = "set_cell_text" /\ OnTable) =>
        IF InsideTable THEN CellWasSet
        ELSE IndexErrorReturned /\ disk = last.before

\* C11: set_cell_text outside the rows, or outside the columns of row 0,
\* fails with an index error and leaves the file as it was; inside them it
\* sets the text of the first paragraph of the cell (creating it when the
\* cell has none) when the row has a cell at the column, and otherwise
\* fails and leaves the file as it was.
C11_SetCellText ==
    (last.tool = "set_cell_text" /\ OnTable) =>
        IF ~InsideTable THEN IndexErrorReturned /\ disk = last.before
        ELSE IF CellThere THEN CellWasSet
        ELSE Failed /\ disk = last.before

\* C11 witnesses: the text of a cell that had a paragraph was replaced
C11_Witness ==
    /\ last.tool = "set_cell_text" /\ OnTable /\ InsideTable /\ CellThere /\ Succeeded
    /\ Len(CellsBefore[last.args.row + 1][last.args.column + 1]) = 2
    /\ Data.original_text # last.args.text

\* create_table was given a.docx, and the section and the paragraph of the
\* call are there
OnCreate ==
    /\ last.tool = "create_table" /\ last.name = A_DOCX /\ HadA /\ last.before[APath].valid
    /\ last.args.s < Len(DocBefore)
    /\ \/ IsNone(last.args.pidx)
       \/ /\ 0 <= Val(last.args.pidx)
          /\ Val(last.args.pidx) < ParaCount(DocBefore[last.args.s + 1])

DimensionsInRange ==
    /\ 1 <= last.args.rows /\ last.args.rows <= 1000
    /\ 1 <= last.args.columns /\ last.args.columns <= 100

DimensionErrorReturned ==
    /\ Failed
    /\ Val(last.out.error).details \in {"Table dimensions must be positive",
                                        "Table dimensions too large"}

BodyBefore == DocBefore[last.args.s + 1]
BodyNow == DocNow[last.args.s + 1]

\* the body now is the body before with one table more, at position pos
TableAddedAt(pos) ==
    /\ Len(BodyNow) = Len(BodyBefore) + 1
    /\ pos \in 1..Len(BodyNow)
    /\ BodyNow[pos].kind = "table"
    /\ RemoveAtPos(BodyNow, pos) = BodyBefore

\* C13: create_table with a paragraph index p puts the new table right after
\* paragraph p of the section, and without one at the end of the section; in
\* both cases exactly one table is added.
C13_TablePlacement ==
    (OnCreate /\ Succeeded) =>
        IF IsNone(last.args.pidx) THEN TableAddedAt(Len(BodyBefore) + 1)
        ELSE TableAddedAt(ParaPos(BodyBefore)[Val(last.args.pidx) + 1] + 1)

\* the file of the original document of the last merge
OriginalPath == NormPath(PathJoin(WORD_FILES_PATH, last.name))

\* C14: an accepted merge_documents call leaves the file of the original
\* document as it was, and writes the merged document to another path.
C14_MergeKeepsOriginal ==
    (last.tool = "merge_documents" /\ Succeeded) =>
        /\ disk[OriginalPath] = last.before[OriginalPath]
        /\ Data.output_path # OriginalPath

\* C15: set_document_protection with a level that is not a key of
\* PROTECTION_TYPES fails with the validation error of the level, before any
\* call of the engine (no load, no Protect, no save), and the file is as it
\* was.
C15_ProtectionValidatedFirst ==
    (last.tool = "set_document_protection"
     /\ last.args.protection_level \notin PROTECTION_TYPES) =>
        /\ Failed
        /\ Val(last.out.error).details = "Failed to protect document"
        /\ last.engine = <<>>
        /\ disk = last.before

\* C16: add_text_watermark with a color that the engine does not have fails,
\* no watermark is attached and nothing is saved: the file is as it was.
C16_UnknownColorFails ==
    (last.tool = "add_text_watermark" /\ last.args.color \notin Palette) =>
        /\ Failed
        /\ \A k \in 1..Len(last.engine) : last.engine[k] \notin {"set_Watermark", "SaveToFile"}
        /\ disk = last.before

\* C16 witnesses: the document was loaded and the color was then refused
C16_Witness ==
    /\ last.tool = "add_text_watermark" /\ last.args.color = "Nocolor"
    /\ last.engine = <<"LoadFromFile">> /\ Failed
    /\ Val(last.out.error).details = "Failed to add text watermark"

\* the path the last call opened, and what every opening is said to check of
\* it: it is not empty, it is of a file, it has the extension of a document,
\* and the file can be read and written
OpenedPath == PathJoin(WORD_FILES_PATH, last.name)

OpenConditions ==
    /\ OpenedPath # <<>>
    /\ IsFile(OpenedPath, last.before)
    /\ HasDocExt(OpenedPath)
    /\ last.before[NormPath(OpenedPath)].r
    /\ last.before[NormPath(OpenedPath)].w

\* C17: a tool that opens an existing document (get_paragraph_text,
\* update_paragraph_text, convert_document) succeeds only when the path is
\* not empty, the file exists, has the extension of a document and can be
\* read and written; otherwise the call fails.
C17_OpenConditions ==
    (last.tool \in {"get_paragraph_text", "update_paragraph_text", "convert_document"}
     /\ Succeeded) => OpenConditions

\* C18: get_doc_path returns no path for the empty name, whatever the base
\* directory: it refuses the name with the invalid-path error (with the
\* empty base directory, which cannot be created, the call has failed before).
C18_EmptyNameRejected ==
    (last.tool = "get_doc_path" /\ last.name = <<>>) =>
        /\ last.out.res.raised
        /\ last.args.base # <<>> =>
               /\ last.out.res.cls = "DocumentError"
               /\ last.out.res.msg = "Invalid document path"

\* a name with no separator and no ".."
SimpleName(name) ==
    /\ name # <<>>
    /\ \A i \in 1..Len(name) : name[i] # SEP
    /\ \A i \in 1..(Len(name) - 1) : ~(name[i] = DOT /\ name[i + 1] = DOT)

\* C19: for every base directory (relative or absolute, with or without a
\* separator at its end; the empty string names none) and every simple name,
\* get_doc_path returns a path whose parent directory is the base directory;
\* the base directory is there afterwards, and no file is created or changed.
C19_SimpleNamesAccepted ==
    (last.tool = "get_doc_path" /\ SimpleName(last.name) /\ last.args.base # <<>>) =>
        /\ ~last.out.res.raised
        /\ DirName(Val(last.out.res.value)) = last.args.base
        /\ Exists(last.args.base, dirs, disk)
        /\ disk = last.before

\* the history of the handler of SpecHandler before the last call, and now
HistoryBefore == last.earlier.conversion_history
HistoryNow == last.handler.conversion_history

\* C20: within one ConversionHandler, every convert_document call appends
\* one record to conversion_history and leaves the earlier records as they
\* were; the record of a failing call has the status "failed" and holds the
\* error message; get_conversion_status gives the last record of a history
\* that is not empty, and total_conversions is the number of calls made.
C20_HandlerHistory ==
    last.tool \in {"convert_document", "get_conversion_status", "get_conversion_history"} =>
        /\ Len(HistoryNow) = Len(convCalls)
        /\ last.tool = "convert_document" =>
              /\ Len(HistoryNow) = Len(HistoryBefore) + 1
              /\ SubSeq(HistoryNow, 1, Len(HistoryBefore)) = HistoryBefore
              /\ last.out.raised =>
                    /\ HistoryNow[Len(HistoryNow)].status = "failed"
                    /\ HistoryNow[Len(HistoryNow)].error # ""
                    /\ last.out.msg = "Failed to convert document: "
                                        \o HistoryNow[Len(HistoryNow)].error
              /\ ~last.out.raised => HistoryNow[Len(HistoryNow)].status = "success"
        /\ last.tool # "convert_document" => HistoryNow = HistoryBefore
        /\ (last.tool = "get_conversion_status" /\ HistoryNow # <<>>) =>
              Val(last.out.value) = Some(HistoryNow[Len(HistoryNow)])
        /\ last.tool = "get_conversion_history" =>
              /\ Val(last.out.value).history = HistoryNow
              /\ Val(last.out.value).total_conversions = Len(convCalls)

\* C20 witnesses: the status read after a failed and then a successful call
C20_Witness ==
    /\ last.tool = "get_conversion_status"
    /\ Len(HistoryNow) = 2
    /\ HistoryNow[1].status = "failed" /\ HistoryNow[2].status = "success"
    /\ Val(last.out.value) = Some(HistoryNow[2])

\* how often the events of the last call have one operation on one object
RECURSIVE CountEvents(_, _)
CountEvents(events, e) ==
    IF events = <<>> THEN 0
    ELSE (IF Head(events) = e THEN 1 ELSE 0) + CountEvents(Tail(events), e)

\* C21: every engine document a tool call has opened is released exactly
\* once when the call is over, whether it succeeded or failed: the document
\* of the handler, the one convert_document loads, the copy of merge_documents.
C21_ReleasedOnce ==
    last.tool \in {"update_paragraph_text", "convert_document", "merge_documents",
                   "create_document"} =>
        \A k \in 1..Len(last.events) :
            last.events[k].op = "open" =>
                CountEvents(last.events, Closed(last.events[k].obj)) = 1

\* C22: a handler whose constructor has returned holds a loaded document of
\* at least one section; when the load fails the engine object made is
\* closed, the handler holds no document, and the constructor raises.
C22_FullyLoaded ==
    last.tool = "constructed" =>
        IF last.out.returned
        THEN ~IsNone(last.out.document) /\ Len(Val(last.out.document)) >= 1
        ELSE /\ IsNone(last.out.document)
             /\ CountEvents(last.out.events, Opened("handler"))
                    = CountEvents(last.out.events, Closed("handler"))

\* the place of a step of call c in the log of steps, 0 when it was not taken
StepAt(c, step) ==
    IF \E i \in DOMAIN convCalls : convCalls[i] = [call |-> c, step |-> step]
    THEN CHOOSE i \in DOMAIN convCalls : convCalls[i] = [call |-> c, step |-> step]
    ELSE 0

\* call d saved after call c had loaded and before call c saved
SavedBetween(d, c) ==
    /\ StepAt(c, "load") > 0
    /\ StepAt(d, "save") > StepAt(c, "load")
    /\ StepAt(c, "save") > StepAt(d, "save")

LastSaver(c) == convCalls # <<>> /\ convCalls[Len(convCalls)] = [call |-> c, step |-> "save"]

TextsOnFile == ParaTexts(disk[APath].sections[1])

InTexts(t) == \E k \in DOMAIN TextsOnFile : TextsOnFile[k] = t

\* C23: two calls that change the same document can interleave their load,
\* modify and save steps; both return success, and the file the later save
\* leaves is the later saver's copy, without the paragraph of the call that
\* saved in between: the save is neither refused nor reported.
C23_LastSaveWins ==
    \A c \in Calls :
        LastSaver(c) =>
            /\ last[c].out.success
            /\ disk[APath].sections = last[c].doc
            /\ InTexts(TextOf(c))
            /\ \A d \in Calls \ {c} :
                 SavedBetween(d, c) => last[d].out.success /\ ~InTexts(TextOf(d))

C23_Witness ==
    \E c \in Calls, d \in Calls :
        /\ c # d
        /\ LastSaver(c)
        /\ SavedBetween(d, c)
        /\ last[c].out.success /\ last[d].out.success
        /\ InTexts(TextOf(c)) /\ ~InTexts(TextOf(d))

\* C24: within one server no tool call yields between opening the document
\* and saving it: between the load and the last step of a call the log holds
\* no step of another call of the same server.
C24_NoYield ==
    \A i \in DOMAIN convCalls, j \in DOMAIN convCalls, k \in DOMAIN convCalls :
        (i < j /\ j < k /\ convCalls[i].call = convCalls[k].call
               /\ ServerOf(convCalls[j].call) = ServerOf(convCalls[i].call))
            => convCalls[j].call = convCalls[i].call

C24_Witness ==
    \E c \in Calls, d \in Calls :
        /\ c # d /\ ServerOf(c) = ServerOf(d)
        /\ StepAt(c, "save") > 0 /\ StepAt(d, "save") > StepAt(c, "save")
        /\ \E e \in Calls : ServerOf(e) # ServerOf(c) /\ StepAt(e, "load") > StepAt(c, "load")
                            /\ StepAt(e, "load") < StepAt(c, "save")

Mutations ==
    {"add_paragraph", "update_paragraph_text", "delete_paragraph", "format_paragraph",
     "create_table", "delete_table", "set_cell_text", "set_document_protection",
     "find_and_replace", "add_text_watermark"}

\* C25: whenever add_paragraph, update_paragraph_text, delete_paragraph,
\* format_paragraph, create_table, delete_table, set_cell_text,
\* protect_document, find_and_replace or add_text_watermark does not report
\* success, every file is what it was before the call.
C25_FailureLeavesFile ==
    (last.tool \in Mutations /\ ~Succeeded) => disk = last.before

\* C25 witness: a call failed on a document that was loaded, past a check
\* that had passed: the column of set_cell_text after its row
C25_Witness ==
    /\ last.tool = "set_cell_text" /\ Failed
    /\ Val(last.out.error).details = "Invalid column index"
    /\ HadA /\ disk = last.before

\* the tools that address a paragraph by section and paragraph index
ParagraphAddressed ==
    {"get_paragraph_text", "get_paragraph_info", "delete_paragraph", "update_paragraph_text"}

\* the last call addressed a paragraph of a.docx, which was loaded
OnLoaded ==
    /\ last.tool \in ParagraphAddressed
    /\ last.name = A_DOCX
    /\ HadA /\ last.before[APath].valid /\ Len(DocBefore) >= 1

SectionInRange == 0 <= last.args.s /\ last.args.s < Len(DocBefore)

ParagraphInRange ==
    /\ SectionInRange
    /\ 0 <= last.args.p /\ last.args.p < ParaCount(DocBefore[last.args.s + 1])

\* C26: a call that addresses a paragraph by s and p passes the index
\* validation exactly when 0 <= s < the number of sections and 0 <= p < the
\* number of paragraphs of section s, both counted in the document as the
\* file holds it when the call is made; a section out of range is reported
\* whatever the paragraph index is.
C26_IndexValidation ==
    OnLoaded =>
        /\ Succeeded <=> ParagraphInRange
        /\ ~SectionInRange =>
               /\ Failed
               /\ Val(last.out.error).details
                      \in {"Section index cannot be negative", "Section index out of range"}
        /\ (SectionInRange /\ ~ParagraphInRange) =>
               /\ Failed
               /\ Val(last.out.error).details
                      \in {"Paragraph index cannot be negative", "Paragraph index out of range"}

\* C26 witness: index 2 passed, in a section that earlier calls had given a
\* third paragraph
C26_Witness ==
    /\ OnLoaded /\ Succeeded
    /\ last.args.p = 2 /\ ParaCount(DocBefore[last.args.s + 1]) = 3

\* C27: the teardown of a handler does not raise, at its first run or at a
\* later one when the document was closed before, whether or not the
\* engine's Close raises; on a handler without a document (the load failed,
\* or none was made) it calls nothing.
C27_TeardownIdempotent ==
    last.tool = "torn down" =>
        /\ ~last.raised
        /\ (~last.out.returned \/ IsNone(last.out.document)) => last.events = <<>>

\* C27 witness: the second run on a handler with a loaded document, where the
\* Close of the closed document raised
C27_Witness ==
    /\ last.tool = "torn down" /\ last.runs = 2
    /\ last.out.returned /\ ~IsNone(last.out.document)
    /\ last.closes[2] /\ ~last.raised

\* what get_table_info gives now for the table index create_table returned
InfoOfCreated ==
    table_tools_get_table_info(A_DOCX, Data.table_index, last.args.s,
                               WORD_FILES_PATH, disk, dirs).out

\* C28: the table_index a successful create_table returns addresses the
\* table just created: get_table_info of that index in the same section
\* reports the rows and columns asked for, whether the table was appended or
\* put after a paragraph of a section that holds other tables.
C28_IndexAddressesTable ==
    (last.tool = "create_table" /\ Succeeded) =>
        /\ InfoOfCreated.outcome = "success"
        /\ Val(InfoOfCreated.data).rows = last.args.rows
        /\ Val(InfoOfCreated.data).columns = last.args.columns

\* C29: convert_document never writes to the path of the source document:
\* for every supported target format and every output_path, given or not,
\* the path saved to ends in '.' and the lower-cased target format and is
\* not the source path, and the source file is as it was.
C29_SourceNotWritten ==
    (last.tool = "convert_document" /\ Succeeded) =>
        /\ EndsWithFormat(Data.output_path, Lower(last.args.target_format))
        /\ NormPath(Data.output_path) # APath
        /\ disk[APath] = last.before[APath]

\* a.docx was there and loadable before the last call
LoadableBefore == ~BaseHandlerInit(PathJoin(WORD_FILES_PATH, A_DOCX), last.before).raised

\* the template of the last create_document: whether one was found, whether
\* the engine can load it, and what it holds
TemplateFound ==
    ~IsNone(last.args.template) /\ IsFile(Val(last.args.template), last.before)

TemplateFile == last.before[NormPath(Val(last.args.template))]

TemplateLoads == TemplateFile.valid /\ TemplateFile.r

\* a.docx now holds the new document: the template's sections when a
\* template was found, else what the empty document is saved as
ReplacedByNew ==
    /\ Succeeded
    /\ APath \in DOMAIN disk
    /\ DocNow = IF TemplateFound THEN TemplateFile.sections ELSE last.args.reload

\* the constructor did not load a.docx
NotLoaded == CountEvents(last.events, Opened("handler")) = 0

=============================================================================
